---- MODULE Spec2Model ----
(***************************************************************************)
(* A model of the headless-primitives-kit interactive-state engine:        *)
(* HeadlessComponent (data state, visual-state node, strategy dispatch),   *)
(* CommandInvoker (cursor-based undo/redo history), the interaction        *)
(* strategies and the concrete widgets that wire them.                     *)
(*                                                                         *)
(* Every method of the code is an operator from a machine record m (the    *)
(* instance's fields plus the log of hook calls and notifications of the   *)
(* call in progress and the value the last call returned) to the machine   *)
(* record after the call; nested calls are operator applications, so one   *)
(* action of the model is one whole top-level call of a client.            *)
(***************************************************************************)
EXTENDS Integers, Sequences, FiniteSets, TLC

\* Committing calls stop once the history holds MaxHist commands.
MaxHist == 3
\* The tracked run of consecutive setState calls is a window of MaxRun calls.
MaxRun == 2
\* The history bound of the specification that sets every field of a button.
MaxHistVisual == 2
\* The history bound of the specification that drives the widgets' action methods.
MaxHistWidgets == 2
MaxHistReentrant == 3

VARIABLES
    widget,          \* the concrete class of the instance (constructor.name)
    state,           \* HeadlessComponent.state
    states,          \* HeadlessComponent.states (names of the registered nodes)
    currentState,    \* HeadlessComponent.currentState (name of the node, or NoState)
    history,         \* CommandInvoker.history
    currentPosition, \* CommandInvoker.currentPosition
    observers,       \* EventEmitter.observers (event -> the callbacks subscribed)
    emitter,         \* which copy of the EventEmitter class the instance is built on
    subscriptions,   \* the unsubscribe functions subscribe() has returned to the
                     \* client, and how many times the client has called each
    events,          \* hook calls and notifications made by the last top-level call
    result,          \* what the last top-level call returned
    lastOp,          \* the last top-level call and its arguments
    pre,             \* the instance's fields when the last top-level call started
    run,             \* the current run setState^n undo^k redo^j of top-level calls
    hook,            \* the React state of useHeadlessComponent, when the instance
                     \* is the one of a mounted hook
    calls,           \* the top-level calls made since construction, when followed
    twin,            \* a second instance of the same class, when the client has one
    heap             \* which array object each openItems of the data state and of
                     \* the history's snapshots is, when the client handles arrays

vars == <<widget, state, states, currentState, history, currentPosition,
          observers, emitter, subscriptions, events, result, lastOp, pre, run,
          hook, calls, twin, heap>>

----------------------------------------------------------------------------
(* JavaScript values *)

Null == "null"
Undefined == "undefined"
NoState == "null"

\* The values a client stores in the error field: none, an error message, undefined.
ErrorValues == {Null, "E", Undefined}

\* The boolean fields of a button's data state.
BoolFields == {"isDisabled", "isHovered", "isFocused", "isPressed", "isLoading"}

\* The fields a client may set to undefined (error: any | null).
UndefinableFields == {"error"}

\* JavaScript truthiness of a null, undefined or string value.
Truthy(v) == v \notin {Null, Undefined, ""}

\* String(b) of a boolean.
StringOf(b) == IF b THEN "true" ELSE "false"

\* s.k read as a condition: false when the snapshot has no field k.
Flag(s, k) == k \in DOMAIN s /\ s[k]

\* The number NaN, held as an integer no computation of the model reaches.
\* JSON.stringify writes NaN as null and writes no other number so, which is
\* why two snapshots holding NaN in a field have the same JSON text.
NaN == -1000000

\* a !== b on numbers: NaN differs from every number, itself included.
StrictlyDiffer(a, b) == a = NaN \/ b = NaN \/ a # b

\* a + b on numbers: NaN when either is.
Plus(a, b) == IF a = NaN \/ b = NaN THEN NaN ELSE a + b

\* String(n) of a number.
NumberToString(n) == IF n = NaN THEN "NaN" ELSE ToString(n)

\* Math.max(lo, Math.min(hi, v)) for numbers lo and hi: NaN when v is NaN.
Clamp(lo, hi, v) ==
    IF v = NaN THEN NaN
    ELSE LET low == IF hi < v THEN hi ELSE v
         IN  IF lo > low THEN lo ELSE low

\* Math.round(a / b) for b > 0: the nearest integer, halves rounded up; NaN
\* when a is NaN.
Round(a, b) == IF a = NaN THEN NaN ELSE (2 * a + b) \div (2 * b)

\* { ...a, ...b }
Spread(a, b) ==
    [k \in DOMAIN a \cup DOMAIN b |-> IF k \in DOMAIN b THEN b[k] ELSE a[k]]

\* JSON.stringify of a data state: a key whose value is undefined is left out.
Stringify(s) ==
    [k \in {j \in DOMAIN s : ~(j \in UndefinableFields /\ s[j] = Undefined)} |->
        s[k]]

----------------------------------------------------------------------------
(* Event channel *)

\* The log of the call in progress.
Emit(m, e) == [m EXCEPT !.events = Append(@, e)]

\* new Map(): no event has a list of callbacks.
NoObservers == <<>>

\* The two copies of the EventEmitter class: the compiled one, whose
\* notifyObservers iterates over a copy of the list of callbacks, and the
\* TypeScript one, whose notifyObservers iterates over the list itself.
EmitterCopies == {"dist", "ts"}

\* this.observers.has(event)
Has(m, event) == event \in DOMAIN m.observers

\* this.observers.set(event, callbacks)
SetCallbacks(m, event, callbacks) ==
    [m EXCEPT !.observers =
        [e \in DOMAIN m.observers \cup {event} |->
            IF e = event THEN callbacks ELSE m.observers[e]]]

\* EventEmitter.subscribe(event, callback)
Subscribe(m, event, callback) ==
    SetCallbacks(m, event,
        Append(IF Has(m, event) THEN m.observers[event] ELSE <<>>, callback))

\* callbacks.indexOf(callback), counted from 1; 0 when absent.
IndexOf(callbacks, callback) ==
    IF \E i \in DOMAIN callbacks : callbacks[i] = callback
    THEN CHOOSE i \in DOMAIN callbacks :
             /\ callbacks[i] = callback
             /\ \A j \in 1..(i - 1) : callbacks[j] # callback
    ELSE 0

\* callbacks.splice(index, 1)
Splice(callbacks, index) ==
    SubSeq(callbacks, 1, index - 1) \o SubSeq(callbacks, index + 1, Len(callbacks))

\* EventEmitter.unsubscribe(event, callback); the function subscribe returns
\* is () => this.unsubscribe(event, callback).
Unsubscribe(m, event, callback) ==
    IF Has(m, event) /\ IndexOf(m.observers[event], callback) > 0
    THEN SetCallbacks(m, event,
             Splice(m.observers[event], IndexOf(m.observers[event], callback)))
    ELSE m

\* The callbacks a client subscribes.  Each is a function of the client:
\*   log, late      record the call
\*   thrower        throws
\*   once           unsubscribes itself
\*   remover        unsubscribes log
\*   adder          subscribes late to the event
\*   swapper        unsubscribes itself and subscribes late
\*   setter         if (!c.getState().isHovered) c.setState({ isHovered: true })
\*   undoer         c.undo()
\*   redoer         c.redo()
Callbacks == {"log", "late", "thrower", "once", "remover", "adder", "swapper",
              "setter", "undoer", "redoer"}

\* The callback each unsubscribing callback unsubscribes.
Unsubscribes == [once |-> "once", remover |-> "log", swapper |-> "swapper"]

\* setState, undo, redo and handleInteraction may each be entered again, from a
\* callback, while any of them is running: they are the arms of one recursive
\* operator, Mutate, of which SetState, Undo, Redo and HandleInteraction are
\* the applications.
RECURSIVE Mutate(_, _, _)

\* The call each re-entering callback makes: setter calls
\* setState({isHovered: true}) unless isHovered is already true, undoer calls
\* undo() and redoer calls redo().
Reenters ==
    [setter |-> [method |-> "setState", arg |-> [isHovered |-> TRUE]],
     undoer |-> [method |-> "undo", arg |-> <<>>],
     redoer |-> [method |-> "redo", arg |-> <<>>]]

\* callback(data) inside the try of notifyObservers, for the notification whose
\* record is at position n of the log; a throw is caught and logged by
\* console.error.
InvokeCallback(m, callback, event, data, n) ==
    LET Unsubscribed(m1) ==
            IF callback \in DOMAIN Unsubscribes
            THEN Unsubscribe(m1, event, Unsubscribes[callback])
            ELSE m1
        Subscribed(m2) ==
            IF callback \in {"adder", "swapper"}
            THEN Subscribe(m2, event, "late")
            ELSE m2
        Caught(m3) ==
            IF callback = "thrower"
            THEN Emit(m3, [kind |-> "error", name |-> event,
                           data |-> [callback |-> callback, notification |-> n]])
            ELSE m3
        Reentered(m4) ==
            IF /\ callback \in DOMAIN Reenters
               /\ callback = "setter" => ~m4.state.isHovered
            THEN Mutate(m4, Reenters[callback].method, Reenters[callback].arg)
            ELSE m4
    IN  Reentered(Caught(Subscribed(Unsubscribed(
            Emit(m, [kind |-> "callback", name |-> event,
                     data |-> [callback |-> callback, data |-> data,
                               notification |-> n]])))))

RECURSIVE ForEachAborting(_, _, _, _, _, _, _)

\* Mutant: a callback that throws ends the loop.
ForEachAborting(m, copy, k, len, event, data, n) ==
    LET array == IF m.emitter = "dist" THEN copy ELSE m.observers[event]
    IN  IF k > len THEN m
        ELSE IF k > Len(array)
        THEN ForEachAborting(m, copy, k + 1, len, event, data, n)
        ELSE IF array[k] = "thrower"
        THEN InvokeCallback(m, array[k], event, data, n)
        ELSE ForEachAborting(InvokeCallback(m, array[k], event, data, n),
                             copy, k + 1, len, event, data, n)

RECURSIVE ForEach(_, _, _, _, _, _, _)

\* array.forEach(callback => ...) from position k on, where array is the copy
\* of the list of callbacks in the compiled class and the list itself in the
\* TypeScript class: the positions below the length the array had when the loop
\* started, each read when the loop gets to it and passed over when the array
\* has become shorter.
ForEach(m, copy, k, len, event, data, n) ==
    LET array == IF m.emitter = "dist" THEN copy ELSE m.observers[event]
    IN  IF k > len THEN m
        ELSE IF k > Len(array)
        THEN ForEach(m, copy, k + 1, len, event, data, n)
        ELSE ForEach(InvokeCallback(m, array[k], event, data, n),
                     copy, k + 1, len, event, data, n)

\* ComponentState.enter() / exit(): hooks of the node, recorded in the log.
EnterHook(m, node) == Emit(m, [kind |-> "enter", name |-> node, data |-> [node |-> node]])
ExitHook(m, node) == Emit(m, [kind |-> "exit", name |-> node, data |-> [node |-> node]])

\* The log after notifyObservers(event, data) was entered: the call, and, when
\* the event has a list of callbacks, the list as the call found it.
Announced(m, event, data) ==
    LET Notified == Emit(m, [kind |-> "notify", name |-> event, data |-> data])
    IN  IF Has(m, event)
        THEN Emit(Notified, [kind |-> "delivery", name |-> event,
                             data |-> [callbacks |-> m.observers[event],
                                       notification |-> Len(Notified.events)]])
        ELSE Notified

\* Mutant: notifyObservers calls only the first callback of the list.
NotifyFirstOnly(m, event, data) ==
    IF Has(m, event)
    THEN ForEach(Announced(m, event, data), m.observers[event], 1,
                 IF m.observers[event] = <<>> THEN 0 ELSE 1,
                 event, data, Len(m.events) + 1)
    ELSE Announced(m, event, data)

\* EventEmitter.notifyObservers(event, data)
NotifyObservers(m, event, data) ==
    IF Has(m, event)
    THEN ForEach(Announced(m, event, data), m.observers[event], 1,
                 Len(m.observers[event]), event, data, Len(m.events) + 1)
    ELSE Announced(m, event, data)

----------------------------------------------------------------------------
(* HeadlessComponent: data state, CSS projection, visual-state machine *)

DefaultStates ==
    {"idle", "hovered", "focused", "pressed", "disabled", "loading", "error"}

\* ComponentState.getCSSClasses()
GetCSSClasses(node) == <<node>>

\* The concrete classes, each named by its CSS type class:
\* constructor.name.toLowerCase().replace('headless', '')
Widgets == {"button", "toggle", "checkbox", "input", "radiogroup", "slider",
            "accordion", "tabs"}

ComponentTypeClass(w) == w

ButtonInitialState ==
    [isDisabled |-> FALSE, isHovered |-> FALSE, isFocused |-> FALSE,
     isPressed |-> FALSE, isLoading |-> FALSE, error |-> Null]

ToggleInitialState ==
    [isChecked |-> FALSE, isDisabled |-> FALSE, isHovered |-> FALSE,
     isFocused |-> FALSE, isPressed |-> FALSE, isLoading |-> FALSE, error |-> Null]

CheckboxInitialState ==
    [isChecked |-> FALSE, isIndeterminate |-> FALSE, isDisabled |-> FALSE,
     isHovered |-> FALSE, isFocused |-> FALSE, isPressed |-> FALSE, error |-> Null]

InputInitialState ==
    [value |-> "", isFocused |-> FALSE, isDisabled |-> FALSE, isReadOnly |-> FALSE,
     error |-> Null, isValid |-> TRUE]

RadioGroupInitialState ==
    [value |-> Null, options |-> <<>>, isDisabled |-> FALSE, isFocused |-> FALSE,
     error |-> Null]

SliderInitialState ==
    [value |-> 0, min |-> 0, max |-> 100, step |-> 1, isDisabled |-> FALSE,
     isHovered |-> FALSE, isFocused |-> FALSE, isPressed |-> FALSE, error |-> Null]

AccordionInitialState ==
    [openItems |-> <<>>, type |-> "single", collapsible |-> FALSE,
     isDisabled |-> FALSE, isFocused |-> FALSE, error |-> Null]

TabsInitialState ==
    [activeTab |-> Null, orientation |-> "horizontal", isDisabled |-> FALSE,
     isFocused |-> FALSE, error |-> Null]

DefineInitialState(w) ==
    CASE w = "button" -> ButtonInitialState
      [] w = "toggle" -> ToggleInitialState
      [] w = "checkbox" -> CheckboxInitialState
      [] w = "input" -> InputInitialState
      [] w = "radiogroup" -> RadioGroupInitialState
      [] w = "slider" -> SliderInitialState
      [] w = "accordion" -> AccordionInitialState
      [] OTHER -> TabsInitialState

GetState(m) == m.state

\* ...(this.state.error && { 'data-error': 'true' })
ErrorAttribute(s) == IF Truthy(s.error) THEN {"data-error"} ELSE {}

ButtonDataAttributes(s) ==
    [k \in {"data-disabled", "data-loading"} \cup ErrorAttribute(s) |->
        CASE k = "data-disabled" -> StringOf(s.isDisabled)
          [] k = "data-loading" -> StringOf(s.isLoading)
          [] OTHER -> "true"]

ToggleDataAttributes(s) ==
    [k \in {"data-checked", "data-disabled", "data-loading"} \cup ErrorAttribute(s) |->
        CASE k = "data-checked" -> StringOf(s.isChecked)
          [] k = "data-disabled" -> StringOf(s.isDisabled)
          [] k = "data-loading" -> StringOf(s.isLoading)
          [] OTHER -> "true"]

CheckboxDataAttributes(s) ==
    [k \in {"data-checked", "data-indeterminate", "data-disabled"}
           \cup ErrorAttribute(s) |->
        CASE k = "data-checked" -> StringOf(s.isChecked)
          [] k = "data-indeterminate" -> StringOf(s.isIndeterminate)
          [] k = "data-disabled" -> StringOf(s.isDisabled)
          [] OTHER -> "true"]

InputDataAttributes(s) ==
    [k \in {"data-disabled", "data-readonly", "data-valid"} \cup ErrorAttribute(s) |->
        CASE k = "data-disabled" -> StringOf(s.isDisabled)
          [] k = "data-readonly" -> StringOf(s.isReadOnly)
          [] k = "data-valid" -> StringOf(s.isValid)
          [] OTHER -> "true"]

RadioGroupDataAttributes(s) ==
    [k \in {"data-disabled", "data-focused"} \cup ErrorAttribute(s) |->
        CASE k = "data-disabled" -> StringOf(s.isDisabled)
          [] k = "data-focused" -> StringOf(s.isFocused)
          [] OTHER -> "true"]

SliderDataAttributes(s) ==
    [k \in {"data-disabled", "data-focused", "data-pressed", "aria-valuenow",
            "aria-valuemin", "aria-valuemax", "aria-orientation"}
           \cup ErrorAttribute(s) |->
        CASE k = "data-disabled" -> StringOf(s.isDisabled)
          [] k = "data-focused" -> StringOf(s.isFocused)
          [] k = "data-pressed" -> StringOf(s.isPressed)
          [] k = "aria-valuenow" -> NumberToString(s.value)
          [] k = "aria-valuemin" -> ToString(s.min)
          [] k = "aria-valuemax" -> ToString(s.max)
          [] k = "aria-orientation" -> "horizontal"
          [] OTHER -> "true"]

AccordionDataAttributes(s) ==
    [k \in {"data-disabled", "data-type", "data-collapsible", "data-focused"}
           \cup ErrorAttribute(s) |->
        CASE k = "data-disabled" -> StringOf(s.isDisabled)
          [] k = "data-type" -> s.type
          [] k = "data-collapsible" -> StringOf(s.collapsible)
          [] k = "data-focused" -> StringOf(s.isFocused)
          [] OTHER -> "true"]

TabsDataAttributes(s) ==
    [k \in {"data-disabled", "data-orientation", "data-focused"}
           \cup (IF Truthy(s.activeTab) THEN {"data-active-tab"} ELSE {})
           \cup ErrorAttribute(s) |->
        CASE k = "data-disabled" -> StringOf(s.isDisabled)
          [] k = "data-orientation" -> s.orientation
          [] k = "data-active-tab" -> s.activeTab
          [] k = "data-focused" -> StringOf(s.isFocused)
          [] OTHER -> "true"]

GetDataAttributes(m) ==
    CASE m.widget = "button" -> ButtonDataAttributes(m.state)
      [] m.widget = "toggle" -> ToggleDataAttributes(m.state)
      [] m.widget = "checkbox" -> CheckboxDataAttributes(m.state)
      [] m.widget = "input" -> InputDataAttributes(m.state)
      [] m.widget = "radiogroup" -> RadioGroupDataAttributes(m.state)
      [] m.widget = "slider" -> SliderDataAttributes(m.state)
      [] m.widget = "accordion" -> AccordionDataAttributes(m.state)
      [] OTHER -> TabsDataAttributes(m.state)

GetCSSState(m) ==
    [classes |-> <<"headless-component">>
                 \o (IF m.currentState # NoState
                     THEN GetCSSClasses(m.currentState) ELSE <<>>)
                 \o <<ComponentTypeClass(m.widget)>>,
     dataAttributes |-> GetDataAttributes(m)]

\* Mutant: the transition runs even when the target node is already current.
TransitionToStateAlways(m, stateName) ==
    IF stateName \notin m.states THEN m
    ELSE LET Exited == IF m.currentState # NoState
                       THEN ExitHook(m, m.currentState) ELSE m
             Entered(m1) ==
                 EnterHook([m1 EXCEPT !.currentState = stateName], stateName)
             Transitioned(m2) ==
                 NotifyObservers(m2, "stateTransition",
                     [stateName |-> stateName, state |-> GetState(m2)])
             Projected(m3) == NotifyObservers(m3, "cssStateChanged", GetCSSState(m3))
         IN  Projected(Transitioned(Entered(Exited)))

\* Mutant: the name is not looked up in the registry.
TransitionToStateUnchecked(m, stateName) ==
    IF m.currentState = stateName THEN m
    ELSE LET Exited == IF m.currentState # NoState
                       THEN ExitHook(m, m.currentState) ELSE m
             Entered(m1) ==
                 EnterHook([m1 EXCEPT !.currentState = stateName], stateName)
             Transitioned(m2) ==
                 NotifyObservers(m2, "stateTransition",
                     [stateName |-> stateName, state |-> GetState(m2)])
             Projected(m3) == NotifyObservers(m3, "cssStateChanged", GetCSSState(m3))
         IN  Projected(Transitioned(Entered(Exited)))

\* Mutant: cssStateChanged is published before stateTransition.
TransitionToStateCssFirst(m, stateName) ==
    IF stateName \notin m.states THEN m
    ELSE IF m.currentState = stateName THEN m
    ELSE LET Exited == IF m.currentState # NoState
                       THEN ExitHook(m, m.currentState) ELSE m
             Entered(m1) ==
                 EnterHook([m1 EXCEPT !.currentState = stateName], stateName)
             Transitioned(m2) ==
                 NotifyObservers(m2, "stateTransition",
                     [stateName |-> stateName, state |-> GetState(m2)])
             Projected(m3) == NotifyObservers(m3, "cssStateChanged", GetCSSState(m3))
         IN  Transitioned(Projected(Entered(Exited)))

TransitionToState(m, stateName) ==
    IF stateName \notin m.states THEN m
    ELSE IF m.currentState = stateName THEN m
    ELSE LET Exited == IF m.currentState # NoState
                       THEN ExitHook(m, m.currentState) ELSE m
             Entered(m1) ==
                 EnterHook([m1 EXCEPT !.currentState = stateName], stateName)
             Transitioned(m2) ==
                 NotifyObservers(m2, "stateTransition",
                     [stateName |-> stateName, state |-> GetState(m2)])
             Projected(m3) == NotifyObservers(m3, "cssStateChanged", GetCSSState(m3))
         IN  Projected(Transitioned(Entered(Exited)))

\* The chain of each class's updateCurrentStateBasedOnData is an operator from
\* the snapshot to the name of the node it passes to transitionToState.

\* Mutant: pressed is tested before error.
ButtonUpdatePressedFirst(stateData) ==
    IF stateData.isDisabled THEN "disabled"
    ELSE IF stateData.isLoading THEN "loading"
    ELSE IF stateData.isPressed THEN "pressed"
    ELSE IF Truthy(stateData.error) THEN "error"
    ELSE IF stateData.isFocused THEN "focused"
    ELSE IF stateData.isHovered THEN "hovered"
    ELSE "idle"

ButtonUpdateCurrentState(stateData) ==
    IF stateData.isDisabled THEN "disabled"
    ELSE IF stateData.isLoading THEN "loading"
    ELSE IF Truthy(stateData.error) THEN "error"
    ELSE IF stateData.isPressed THEN "pressed"
    ELSE IF stateData.isFocused THEN "focused"
    ELSE IF stateData.isHovered THEN "hovered"
    ELSE "idle"

\* Mutant: the toggle's chain tests pressed before error.
ToggleUpdatePressedFirst(stateData) ==
    IF stateData.isDisabled THEN "disabled"
    ELSE IF stateData.isLoading THEN "loading"
    ELSE IF stateData.isPressed THEN "pressed"
    ELSE IF Truthy(stateData.error) THEN "error"
    ELSE IF stateData.isFocused THEN "focused"
    ELSE IF stateData.isHovered THEN "hovered"
    ELSE "idle"

ToggleUpdateCurrentState(stateData) ==
    IF stateData.isDisabled THEN "disabled"
    ELSE IF stateData.isLoading THEN "loading"
    ELSE IF Truthy(stateData.error) THEN "error"
    ELSE IF stateData.isPressed THEN "pressed"
    ELSE IF stateData.isFocused THEN "focused"
    ELSE IF stateData.isHovered THEN "hovered"
    ELSE "idle"

CheckboxUpdateCurrentState(stateData) ==
    IF stateData.isDisabled THEN "disabled"
    ELSE IF Truthy(stateData.error) THEN "error"
    ELSE IF stateData.isPressed THEN "pressed"
    ELSE IF stateData.isFocused THEN "focused"
    ELSE IF stateData.isHovered THEN "hovered"
    ELSE "idle"

SliderUpdateCurrentState(stateData) ==
    IF stateData.isDisabled THEN "disabled"
    ELSE IF Truthy(stateData.error) THEN "error"
    ELSE IF stateData.isPressed THEN "pressed"
    ELSE IF stateData.isFocused THEN "focused"
    ELSE IF stateData.isHovered THEN "hovered"
    ELSE "idle"

InputUpdateCurrentState(stateData) ==
    IF stateData.isDisabled THEN "disabled"
    ELSE IF Truthy(stateData.error) THEN "error"
    ELSE IF stateData.isFocused THEN "focused"
    ELSE "idle"

RadioGroupUpdateCurrentState(stateData) ==
    IF stateData.isDisabled THEN "disabled"
    ELSE IF Truthy(stateData.error) THEN "error"
    ELSE IF stateData.isFocused THEN "focused"
    ELSE "idle"

AccordionUpdateCurrentState(stateData) ==
    IF stateData.isDisabled THEN "disabled"
    ELSE IF Truthy(stateData.error) THEN "error"
    ELSE IF stateData.isFocused THEN "focused"
    ELSE "idle"

TabsUpdateCurrentState(stateData) ==
    IF stateData.isDisabled THEN "disabled"
    ELSE IF Truthy(stateData.error) THEN "error"
    ELSE IF stateData.isFocused THEN "focused"
    ELSE "idle"

\* updateCurrentStateBasedOnData(stateData) of the instance's class: the
\* transition to the node its chain selects.
UpdateCurrentStateBasedOnData(m, stateData) ==
    TransitionToState(m,
    CASE m.widget = "button" -> ButtonUpdateCurrentState(stateData)
      [] m.widget = "toggle" -> ToggleUpdateCurrentState(stateData)
      [] m.widget = "checkbox" -> CheckboxUpdateCurrentState(stateData)
      [] m.widget = "input" -> InputUpdateCurrentState(stateData)
      [] m.widget = "radiogroup" -> RadioGroupUpdateCurrentState(stateData)
      [] m.widget = "slider" -> SliderUpdateCurrentState(stateData)
      [] m.widget = "accordion" -> AccordionUpdateCurrentState(stateData)
      [] OTHER -> TabsUpdateCurrentState(stateData))

----------------------------------------------------------------------------
(* Command and CommandInvoker *)

\* Mutant: the execute closure notifies before it stores, and without the
\* try/catch of notifyObservers: a subscriber that throws leaves the state as
\* it was.
CommandExecuteAfterNotify(m, command) ==
    LET Rederived(m1) == UpdateCurrentStateBasedOnData(m1, m1.state)
        Published(m2) == NotifyObservers(m2, "stateChanged", command.nextState)
    IN  IF /\ Has(m, "stateChanged")
           /\ \E k \in DOMAIN m.observers["stateChanged"] :
                  m.observers["stateChanged"][k] = "thrower"
        THEN Published(m)
        ELSE Rederived([Published(m) EXCEPT !.state = command.nextState])

\* The execute closure of the command setState builds.
CommandExecute(m, command) ==
    LET Rederived(m1) == UpdateCurrentStateBasedOnData(m1, m1.state)
        Published(m2) == NotifyObservers(m2, "stateChanged", GetState(m2))
    IN  Published(Rederived([m EXCEPT !.state = command.nextState]))

\* Mutant: the undo closure adopts the next snapshot instead of the previous one.
CommandUndoAdoptsNext(m, command) ==
    LET Rederived(m1) == UpdateCurrentStateBasedOnData(m1, m1.state)
        Published(m2) == NotifyObservers(m2, "stateChanged", GetState(m2))
    IN  Published(Rederived([m EXCEPT !.state = command.nextState]))

\* The undo closure of the command setState builds.
CommandUndo(m, command) ==
    LET Rederived(m1) == UpdateCurrentStateBasedOnData(m1, m1.state)
        Published(m2) == NotifyObservers(m2, "stateChanged", GetState(m2))
    IN  Published(Rederived([m EXCEPT !.state = command.previousState]))

CanUndo(m) == m.currentPosition >= 0

\* Mutant: nothing can be redone from the position before the first command.
CanRedoFromCommand(m) ==
    m.currentPosition >= 0 /\ m.currentPosition < Len(m.history) - 1

CanRedo(m) == m.currentPosition < Len(m.history) - 1

GetHistory(m) ==
    [length |-> Len(m.history), currentPosition |-> m.currentPosition,
     canUndo |-> CanUndo(m), canRedo |-> CanRedo(m)]

\* Mutant: the cursor is set to the length instead of length - 1.
InvokerExecuteCursorPastTail(m, command) ==
    LET Pushed(m1) ==
            LET h == SubSeq(m1.history, 1, m1.currentPosition + 1) \o <<command>>
            IN  [m1 EXCEPT !.history = h, !.currentPosition = Len(h)]
    IN  Pushed(CommandExecute(m, command))

\* Mutant: the command is pushed and the cursor stepped, the redo branch kept.
InvokerExecuteKeepsBranch(m, command) ==
    LET Pushed(m1) == [m1 EXCEPT !.history = Append(@, command),
                                 !.currentPosition = @ + 1]
    IN  Pushed(CommandExecute(m, command))

\* Mutant: the command is appended without slicing the history at the cursor.
InvokerExecuteNoSlice(m, command) ==
    LET Pushed(m1) ==
            LET h == Append(m1.history, command)
            IN  [m1 EXCEPT !.history = h, !.currentPosition = Len(h) - 1]
    IN  Pushed(CommandExecute(m, command))

InvokerExecute(m, command) ==
    LET Pushed(m1) ==
            LET h == SubSeq(m1.history, 1, m1.currentPosition + 1) \o <<command>>
            IN  [m1 EXCEPT !.history = h, !.currentPosition = Len(h) - 1]
    IN  Pushed(CommandExecute(m, command))

\* Mutant: undo runs the command's undo closure and leaves the cursor on it.
InvokerUndoKeepsCursor(m) ==
    IF CanUndo(m)
    THEN LET m1 == CommandUndo(m, m.history[m.currentPosition + 1])
         IN  [m1 EXCEPT !.ret = [value |-> TRUE]]
    ELSE [m EXCEPT !.ret = [value |-> FALSE]]

InvokerUndo(m) ==
    IF CanUndo(m)
    THEN LET m1 == CommandUndo(m, m.history[m.currentPosition + 1])
         IN  [m1 EXCEPT !.currentPosition = @ - 1, !.ret = [value |-> TRUE]]
    ELSE [m EXCEPT !.ret = [value |-> FALSE]]

\* Mutant: redo steps the cursor and does not run the command.
InvokerRedoSkipsExecute(m) ==
    IF CanRedo(m)
    THEN [m EXCEPT !.currentPosition = @ + 1, !.ret = [value |-> TRUE]]
    ELSE [m EXCEPT !.ret = [value |-> FALSE]]

InvokerRedo(m) ==
    IF CanRedo(m)
    THEN LET Executed(m1) ==
                 CommandExecute(m1, m1.history[m1.currentPosition + 1])
         IN  [Executed([m EXCEPT !.currentPosition = @ + 1])
                 EXCEPT !.ret = [value |-> TRUE]]
    ELSE [m EXCEPT !.ret = [value |-> FALSE]]

----------------------------------------------------------------------------
(* HeadlessComponent: setState, undo, redo *)

\* Mutant: setState commits without comparing the snapshots.
SetStateAlwaysCommits(m, newState) ==
    LET previousState == m.state
        nextState == Spread(m.state, newState)
    IN  [InvokerExecute(m, [previousState |-> previousState,
                            nextState |-> nextState])
            EXCEPT !.ret = [value |-> TRUE]]

\* Mutant: undo publishes historyChanged whatever the invoker returned.
UndoAlwaysReports(m) ==
    LET Reported(m1) ==
            [NotifyObservers(m1, "historyChanged", GetHistory(m1))
                EXCEPT !.ret = m1.ret]
    IN  Reported(InvokerUndo(m))

\* Mutant: redo publishes the tuple read before the invoker moved the cursor.
RedoReportsStale(m) ==
    LET Reported(m1) ==
            IF m1.ret.value
            THEN [NotifyObservers(m1, "historyChanged", GetHistory(m))
                     EXCEPT !.ret = [value |-> TRUE]]
            ELSE m1
    IN  Reported(InvokerRedo(m))

\* HeadlessComponent.setState(newState)
SetState(m, newState) == Mutate(m, "setState", newState)

\* HeadlessComponent.undo()
Undo(m) == Mutate(m, "undo", <<>>)

\* HeadlessComponent.redo()
Redo(m) == Mutate(m, "redo", <<>>)

\* Mutant: the constructor returns without deriving the initial node.
ConstructWithoutNode(w) ==
    [widget |-> w, state |-> DefineInitialState(w), states |-> DefaultStates,
     currentState |-> NoState, history |-> <<>>, currentPosition |-> -1,
     observers |-> NoObservers, emitter |-> "dist",
     events |-> <<>>, ret |-> [value |-> TRUE]]

\* new Widget(): the constructor of HeadlessComponent.
Construct(w) ==
    LET m0 == [widget |-> w, state |-> DefineInitialState(w), states |-> DefaultStates,
               currentState |-> NoState, history |-> <<>>, currentPosition |-> -1,
               observers |-> NoObservers, emitter |-> "dist",
               events |-> <<>>, ret |-> [value |-> TRUE]]
    IN  UpdateCurrentStateBasedOnData(m0, m0.state)

\* new Widget() of a subclass of the widget that overrides setupDefaultStates
\* and registers the nodes named in registry.
ConstructRegistering(w, registry) ==
    LET m0 == [widget |-> w, state |-> DefineInitialState(w), states |-> registry,
               currentState |-> NoState, history |-> <<>>, currentPosition |-> -1,
               observers |-> NoObservers, emitter |-> "dist",
               events |-> <<>>, ret |-> [value |-> TRUE]]
    IN  UpdateCurrentStateBasedOnData(m0, m0.state)

----------------------------------------------------------------------------
(* Interaction strategies.  The originalEvent of a payload is passed through   *)
(* untouched and is left out of the payloads and of the published data.        *)

\* return r
Return(m, r) == [m EXCEPT !.ret = r]

\* What a method without a return value returns.
Void == [value |-> Undefined]

\* Mutant: the toggle click strategy without its guard.
ToggleClickUnguarded(m, payload) ==
    LET s == GetState(m)
        newCheckedState == ~s.isChecked
        m1 == SetState(m, [isChecked |-> newCheckedState])
        m2 == NotifyObservers(m1, "toggled", [checked |-> newCheckedState])
    IN  Return(m2, [prevented |-> FALSE, handled |-> TRUE])

ToggleClickStrategy(m, payload) ==
    LET s == GetState(m)
    IN  IF s.isDisabled \/ Flag(s, "isLoading")
        THEN Return(m, [prevented |-> TRUE, handled |-> FALSE,
                        reason |-> "disabled or loading"])
        ELSE LET newCheckedState == ~s.isChecked
                 m1 == SetState(m, [isChecked |-> newCheckedState])
                 m2 == NotifyObservers(m1, "toggled", [checked |-> newCheckedState])
             IN  Return(m2, [prevented |-> FALSE, handled |-> TRUE])

ButtonClickStrategy(m, payload) ==
    LET s == GetState(m)
    IN  IF s.isDisabled \/ Flag(s, "isLoading")
        THEN Return(m, [prevented |-> TRUE, handled |-> FALSE,
                        reason |-> "disabled or loading"])
        ELSE Return(NotifyObservers(m, "clicked", <<>>),
                    [prevented |-> FALSE, handled |-> TRUE])

\* Mutant: the disabled branch publishes hoverChanged like the enabled one.
HoverDisabledPublishes(m, payload) ==
    LET s == GetState(m)
        Published(m1) ==
            NotifyObservers(m1, "hoverChanged", [isHovered |-> payload.isHovered])
    IN  IF s.isHovered # payload.isHovered
        THEN Return(Published(SetState(m, [isHovered |-> payload.isHovered])),
                    [prevented |-> FALSE, handled |-> TRUE])
        ELSE Return(m, [prevented |-> FALSE, handled |-> TRUE])

HoverStrategy(m, payload) ==
    LET s == GetState(m)
    IN  IF s.isDisabled
        THEN Return(SetState(m, [isHovered |-> payload.isHovered]),
                    [prevented |-> FALSE, handled |-> TRUE,
                     reason |-> "disabled, visual hover only"])
        ELSE IF s.isHovered # payload.isHovered
        THEN LET m1 == SetState(m, [isHovered |-> payload.isHovered])
                 m2 == NotifyObservers(m1, "hoverChanged",
                           [isHovered |-> payload.isHovered])
             IN  Return(m2, [prevented |-> FALSE, handled |-> TRUE])
        ELSE Return(m, [prevented |-> FALSE, handled |-> TRUE])

\* Mutant: focusChanged is published whether or not the flag changes.
FocusAlwaysPublishes(m, payload) ==
    LET s == GetState(m)
        Published(m1) ==
            NotifyObservers(m1, "focusChanged", [isFocused |-> payload.isFocused])
    IN  IF s.isDisabled /\ payload.isFocused
        THEN Return(m, [prevented |-> TRUE, handled |-> FALSE, reason |-> "disabled"])
        ELSE IF s.isFocused # payload.isFocused
        THEN Return(Published(SetState(m, [isFocused |-> payload.isFocused])),
                    [prevented |-> FALSE, handled |-> TRUE])
        ELSE Return(Published(m), [prevented |-> FALSE, handled |-> TRUE])

FocusStrategy(m, payload) ==
    LET s == GetState(m)
    IN  IF s.isDisabled /\ payload.isFocused
        THEN Return(m, [prevented |-> TRUE, handled |-> FALSE, reason |-> "disabled"])
        ELSE IF s.isFocused # payload.isFocused
        THEN LET m1 == SetState(m, [isFocused |-> payload.isFocused])
                 m2 == NotifyObservers(m1, "focusChanged",
                           [isFocused |-> payload.isFocused])
             IN  Return(m2, [prevented |-> FALSE, handled |-> TRUE])
        ELSE Return(m, [prevented |-> FALSE, handled |-> TRUE])

KeyboardStrategy(m, payload) ==
    LET s == GetState(m)
        key == payload.key
    IN  IF s.isDisabled \/ Flag(s, "isLoading")
        THEN Return(m, [prevented |-> TRUE, handled |-> FALSE,
                        reason |-> "disabled or loading"])
        ELSE IF key \in {" ", "Enter"}
        THEN LET m2 ==
                   IF "isChecked" \in DOMAIN s /\ m.widget \in {"toggle", "checkbox"}
                   THEN IF m.widget = "checkbox" /\ s.isIndeterminate
                        THEN NotifyObservers(
                                 SetState(m, [isChecked |-> TRUE,
                                              isIndeterminate |-> FALSE]),
                                 "toggled",
                                 [checked |-> TRUE, fromIndeterminate |-> TRUE,
                                  triggeredBy |-> "keyboard", key |-> key])
                        ELSE NotifyObservers(
                                 SetState(m, [isChecked |-> ~s.isChecked]),
                                 "toggled",
                                 [checked |-> ~s.isChecked,
                                  triggeredBy |-> "keyboard", key |-> key])
                   ELSE IF m.widget = "button"
                   THEN NotifyObservers(m, "clicked",
                            [triggeredBy |-> "keyboard", key |-> key])
                   ELSE m
             IN  Return(m2, [prevented |-> FALSE, handled |-> TRUE])
        ELSE Return(m, [prevented |-> FALSE, handled |-> FALSE])

InputTextStrategy(m, payload) ==
    LET s == GetState(m)
    IN  IF s.isDisabled \/ s.isReadOnly
        THEN Return(m, [prevented |-> TRUE, handled |-> FALSE,
                        reason |-> "disabled or readOnly"])
        ELSE IF s.value # payload.value
        THEN LET m1 == SetState(m, [value |-> payload.value])
                 m2 == NotifyObservers(m1, "valueChanged",
                           [oldValue |-> s.value, newValue |-> payload.value])
             IN  Return(m2, [prevented |-> FALSE, handled |-> TRUE])
        ELSE Return(m, [prevented |-> FALSE, handled |-> TRUE])

\* options.find(opt => opt.value === value): the matching options, first first.
FindOption(options, value) == SelectSeq(options, LAMBDA opt : opt.value = value)

RadioItemSelectStrategy(m, payload) ==
    LET s == GetState(m)
        found == FindOption(s.options, payload.value)
    IN  IF s.isDisabled
        THEN Return(m, [prevented |-> TRUE, handled |-> FALSE,
                        reason |-> "group disabled"])
        ELSE IF found = <<>> \/ Flag(found[1], "disabled")
        THEN Return(m, [prevented |-> TRUE, handled |-> FALSE,
                        reason |-> "option not found or disabled"])
        ELSE IF s.value # payload.value
        THEN LET m1 == SetState(m, [value |-> payload.value])
                 m2 == NotifyObservers(m1, "valueChanged", [value |-> payload.value])
             IN  Return(m2, [prevented |-> FALSE, handled |-> TRUE])
        ELSE Return(m, [prevented |-> FALSE, handled |-> TRUE])

\* The value clamped to [min, max], aligned to the step from min, clamped again.
Align(min, max, step, v) ==
    IF v = NaN THEN NaN
    ELSE Clamp(min, max, Round(Clamp(min, max, v) - min, step) * step + min)

SliderUpdateStrategy(m, payload) ==
    LET s == GetState(m)
    IN  IF s.isDisabled
        THEN Return(m, [prevented |-> TRUE, handled |-> FALSE, reason |-> "disabled"])
        ELSE LET newValue == Align(s.min, s.max, s.step, payload.value)
             IN  IF StrictlyDiffer(s.value, newValue)
                 THEN LET m1 == SetState(m, [value |-> newValue])
                          m2 == NotifyObservers(m1, "valueChanged",
                                    [value |-> newValue])
                      IN  Return(m2, [prevented |-> FALSE, handled |-> TRUE])
                 ELSE Return(m, [prevented |-> FALSE, handled |-> TRUE])

SliderKeyboardStrategy(m, payload) ==
    LET s == GetState(m)
        key == payload.key
        handled == key \in {"ArrowLeft", "ArrowDown", "ArrowRight", "ArrowUp",
                            "Home", "End"}
        target == CASE key \in {"ArrowLeft", "ArrowDown"} -> Plus(s.value, -s.step)
                    [] key \in {"ArrowRight", "ArrowUp"} -> Plus(s.value, s.step)
                    [] key = "Home" -> s.min
                    [] key = "End" -> s.max
                    [] OTHER -> s.value
    IN  IF s.isDisabled
        THEN Return(m, [prevented |-> TRUE, handled |-> FALSE, reason |-> "disabled"])
        ELSE IF handled
        THEN LET newValue == Align(s.min, s.max, s.step, target)
             IN  IF StrictlyDiffer(s.value, newValue)
                 THEN LET m1 == SetState(m, [value |-> newValue])
                          m2 == NotifyObservers(m1, "valueChanged",
                                    [value |-> newValue, triggeredBy |-> "keyboard",
                                     key |-> key])
                      IN  Return(m2, [prevented |-> FALSE, handled |-> TRUE])
                 ELSE Return(m, [prevented |-> FALSE, handled |-> TRUE])
        ELSE Return(m, [prevented |-> FALSE, handled |-> FALSE])

\* items.includes(id)
Includes(items, id) == \E i \in DOMAIN items : items[i] = id

\* Mutant: the open item of a 'single' accordion closes whether or not the
\* accordion is collapsible.
AccordionToggleItemCollapses(m, payload) ==
    LET s == GetState(m)
        itemId == payload.itemId
        isOpen == Includes(s.openItems, itemId)
        newOpenItems ==
            IF s.type = "single"
            THEN IF isOpen THEN <<>> ELSE <<itemId>>
            ELSE IF isOpen
                 THEN SelectSeq(s.openItems, LAMBDA id : id # itemId)
                 ELSE Append(s.openItems, itemId)
    IN  IF s.isDisabled \/ payload.itemDisabled
        THEN Return(m, [prevented |-> TRUE, handled |-> FALSE,
                        reason |-> IF payload.itemDisabled THEN "item disabled"
                                   ELSE "group disabled"])
        ELSE IF s.openItems # newOpenItems
        THEN LET m1 == SetState(m, [openItems |-> newOpenItems])
                 m2 == NotifyObservers(m1, "itemToggled",
                           [itemId |-> itemId,
                            isOpen |-> Includes(newOpenItems, itemId),
                            openItems |-> newOpenItems])
             IN  Return(m2, [prevented |-> FALSE, handled |-> TRUE])
        ELSE Return(m, [prevented |-> FALSE, handled |-> TRUE])

AccordionToggleItemStrategy(m, payload) ==
    LET s == GetState(m)
        itemId == payload.itemId
        isOpen == Includes(s.openItems, itemId)
        newOpenItems ==
            IF s.type = "single"
            THEN IF isOpen
                 THEN IF s.collapsible THEN <<>> ELSE s.openItems
                 ELSE <<itemId>>
            ELSE IF isOpen
                 THEN SelectSeq(s.openItems, LAMBDA id : id # itemId)
                 ELSE Append(s.openItems, itemId)
    IN  IF s.isDisabled \/ payload.itemDisabled
        THEN Return(m, [prevented |-> TRUE, handled |-> FALSE,
                        reason |-> IF payload.itemDisabled THEN "item disabled"
                                   ELSE "group disabled"])
        ELSE IF s.openItems # newOpenItems
        THEN LET m1 == SetState(m, [openItems |-> newOpenItems])
                 m2 == NotifyObservers(m1, "itemToggled",
                           [itemId |-> itemId,
                            isOpen |-> Includes(newOpenItems, itemId),
                            openItems |-> newOpenItems])
             IN  Return(m2, [prevented |-> FALSE, handled |-> TRUE])
        ELSE Return(m, [prevented |-> FALSE, handled |-> TRUE])

TabsActivateTabStrategy(m, payload) ==
    LET s == GetState(m)
        tabId == payload.tabId
    IN  IF s.isDisabled \/ Flag(payload, "tabDisabled")
        THEN Return(m, [prevented |-> TRUE, handled |-> FALSE,
                        reason |-> IF Flag(payload, "tabDisabled") THEN "tab disabled"
                                   ELSE "group disabled"])
        ELSE IF s.activeTab # tabId
        THEN LET m1 == SetState(m, [activeTab |-> tabId])
                 m2 == NotifyObservers(m1, "tabActivated", [tabId |-> tabId])
             IN  Return(m2, [prevented |-> FALSE, handled |-> TRUE])
        ELSE Return(m, [prevented |-> FALSE, handled |-> TRUE])

\* setupDefaultStrategies() of each class: the strategy registered for each
\* interaction type.
InteractionStrategies(w) ==
    CASE w = "button" ->
           [click |-> "ButtonClickStrategy", hover |-> "HoverStrategy",
            focus |-> "FocusStrategy", keyboard |-> "KeyboardStrategy"]
      [] w \in {"toggle", "checkbox"} ->
           [click |-> "ToggleClickStrategy", hover |-> "HoverStrategy",
            focus |-> "FocusStrategy", keyboard |-> "KeyboardStrategy"]
      [] w = "input" ->
           [input |-> "InputTextStrategy", focus |-> "FocusStrategy"]
      [] w = "radiogroup" ->
           [select |-> "RadioItemSelectStrategy", focus |-> "FocusStrategy"]
      [] w = "slider" ->
           [update |-> "SliderUpdateStrategy", hover |-> "HoverStrategy",
            focus |-> "FocusStrategy", keyboard |-> "SliderKeyboardStrategy"]
      [] w = "accordion" ->
           [toggleItem |-> "AccordionToggleItemStrategy", focus |-> "FocusStrategy"]
      [] OTHER ->
           [activateTab |-> "TabsActivateTabStrategy", focus |-> "FocusStrategy"]

\* strategy.handle(this, payload)
Handle(strategy, m, payload) ==
    CASE strategy = "ToggleClickStrategy" -> ToggleClickStrategy(m, payload)
      [] strategy = "ButtonClickStrategy" -> ButtonClickStrategy(m, payload)
      [] strategy = "HoverStrategy" -> HoverStrategy(m, payload)
      [] strategy = "FocusStrategy" -> FocusStrategy(m, payload)
      [] strategy = "KeyboardStrategy" -> KeyboardStrategy(m, payload)
      [] strategy = "InputTextStrategy" -> InputTextStrategy(m, payload)
      [] strategy = "RadioItemSelectStrategy" -> RadioItemSelectStrategy(m, payload)
      [] strategy = "SliderUpdateStrategy" -> SliderUpdateStrategy(m, payload)
      [] strategy = "SliderKeyboardStrategy" -> SliderKeyboardStrategy(m, payload)
      [] strategy = "AccordionToggleItemStrategy" ->
           AccordionToggleItemStrategy(m, payload)
      [] OTHER -> TabsActivateTabStrategy(m, payload)

\* Mutant: a type without a strategy is handled as a focus.
HandleInteractionFallsBack(m, type, payload) ==
    IF type \in DOMAIN InteractionStrategies(m.widget)
    THEN Handle(InteractionStrategies(m.widget)[type], m, payload)
    ELSE Handle("FocusStrategy", m, [isFocused |-> TRUE])

\* HeadlessComponent.handleInteraction(type, payload)
HandleInteraction(m, type, payload) ==
    Mutate(m, "handleInteraction", [type |-> type, payload |-> payload])

\* The mutators of HeadlessComponent.
\*   setState(newState): arg is the partial state
\*   undo(), redo(): arg is unused
\*   handleInteraction(type, payload): arg holds the two
Mutate(m, method, arg) ==
    CASE method = "setState" ->
           LET previousState == m.state
               nextState == Spread(m.state, arg)
           IN  IF Stringify(previousState) = Stringify(nextState)
               THEN [m EXCEPT !.ret = [value |-> FALSE]]
               ELSE [InvokerExecute(m, [previousState |-> previousState,
                                        nextState |-> nextState])
                        EXCEPT !.ret = [value |-> TRUE]]
      [] method = "undo" ->
           LET Reported(m1) ==
                   IF m1.ret.value
                   THEN [NotifyObservers(m1, "historyChanged", GetHistory(m1))
                            EXCEPT !.ret = [value |-> TRUE]]
                   ELSE m1
           IN  Reported(InvokerUndo(m))
      [] method = "redo" ->
           LET Reported(m1) ==
                   IF m1.ret.value
                   THEN [NotifyObservers(m1, "historyChanged", GetHistory(m1))
                            EXCEPT !.ret = [value |-> TRUE]]
                   ELSE m1
           IN  Reported(InvokerRedo(m))
      [] OTHER ->
           IF arg.type \in DOMAIN InteractionStrategies(m.widget)
           THEN Handle(InteractionStrategies(m.widget)[arg.type], m, arg.payload)
           ELSE Return(m, [prevented |-> FALSE, handled |-> FALSE,
                           reason |-> "No strategy"])

----------------------------------------------------------------------------
(* The action methods and setters of the concrete widgets *)

\* HeadlessButton.click()
ButtonClick(m) == HandleInteraction(m, "click", <<>>)

\* HeadlessToggle.toggle()
ToggleToggle(m) == HandleInteraction(m, "click", <<>>)

\* HeadlessCheckbox.toggle()
CheckboxToggle(m) ==
    IF m.state.isDisabled
    THEN Return(m, [prevented |-> TRUE, reason |-> "disabled"])
    ELSE IF m.state.isIndeterminate
    THEN LET Toggled(m1) ==
                 IF m1.ret.value
                 THEN NotifyObservers(m1, "toggled",
                          [checked |-> TRUE, fromIndeterminate |-> TRUE])
                 ELSE m1
         IN  Return(Toggled(SetState(m, [isChecked |-> TRUE,
                                         isIndeterminate |-> FALSE])),
                    [prevented |-> FALSE, handled |-> TRUE])
    ELSE HandleInteraction(m, "click", <<>>)

\* HeadlessCheckbox.check()
CheckboxCheck(m) ==
    IF m.state.isDisabled THEN Return(m, Void)
    ELSE IF ~m.state.isChecked \/ m.state.isIndeterminate
    THEN LET Toggled(m1) ==
                 IF m1.ret.value
                 THEN NotifyObservers(m1, "toggled", [checked |-> TRUE])
                 ELSE m1
         IN  Return(Toggled(SetState(m, [isChecked |-> TRUE,
                                         isIndeterminate |-> FALSE])),
                    Void)
    ELSE Return(m, Void)

\* HeadlessCheckbox.uncheck()
CheckboxUncheck(m) ==
    IF m.state.isDisabled THEN Return(m, Void)
    ELSE IF m.state.isChecked \/ m.state.isIndeterminate
    THEN LET Toggled(m1) ==
                 IF m1.ret.value
                 THEN NotifyObservers(m1, "toggled", [checked |-> FALSE])
                 ELSE m1
         IN  Return(Toggled(SetState(m, [isChecked |-> FALSE,
                                         isIndeterminate |-> FALSE])),
                    Void)
    ELSE Return(m, Void)

\* Mutant: setIndeterminate stores the flag and leaves isChecked as it is.
SetIndeterminateKeepsChecked(m, indeterminate) ==
    IF m.state.isDisabled THEN Return(m, Void)
    ELSE Return(SetState(m, [isIndeterminate |-> indeterminate]), Void)

\* HeadlessCheckbox.setIndeterminate(indeterminate)
SetIndeterminate(m, indeterminate) ==
    IF m.state.isDisabled THEN Return(m, Void)
    ELSE Return(SetState(m, [isIndeterminate |-> indeterminate,
                             isChecked |-> IF indeterminate THEN FALSE
                                           ELSE m.state.isChecked]),
                Void)

\* hover(isHovered) of button, toggle, checkbox and slider
Hover(m, isHovered) == HandleInteraction(m, "hover", [isHovered |-> isHovered])

\* focus(isFocused) of every widget
Focus(m, isFocused) == HandleInteraction(m, "focus", [isFocused |-> isFocused])

\* keydown(originalEvent) of button, toggle, checkbox and slider
Keydown(m, key) == HandleInteraction(m, "keyboard", [key |-> key])

\* HeadlessInput.setValue(newValue)
InputSetValue(m, newValue) == HandleInteraction(m, "input", [value |-> newValue])

\* HeadlessSlider.setValue(newValue)
SliderSetValue(m, newValue) == HandleInteraction(m, "update", [value |-> newValue])

\* HeadlessSlider.setRange(min, max, step)
SetRange(m, min, max, step) ==
    IF min >= max THEN Return(m, Void)
    ELSE IF step <= 0 THEN Return(m, Void)
    ELSE Return(SetState(m, [min |-> min, max |-> max, step |-> step,
                             value |-> Align(min, max, step, m.state.value)]),
                Void)

\* HeadlessRadioGroup.selectOption(value)
SelectOption(m, value) ==
    LET found == FindOption(m.state.options, value)
        optionDisabled == found # <<>> /\ Flag(found[1], "disabled")
    IN  IF m.state.isDisabled \/ optionDisabled
        THEN Return(m, [prevented |-> TRUE,
                        reason |-> IF optionDisabled THEN "option disabled"
                                   ELSE "group disabled"])
        ELSE HandleInteraction(m, "select", [value |-> value])

\* Mutant: setValue stores the value without looking at the options.
RadioSetValueUnchecked(m, value) == Return(SetState(m, [value |-> value]), Void)

\* HeadlessRadioGroup.setValue(value)
RadioSetValue(m, value) ==
    LET isValidOption ==
            \/ value = Null
            \/ \E i \in DOMAIN m.state.options :
                   /\ m.state.options[i].value = value
                   /\ ~Flag(m.state.options[i], "disabled")
    IN  IF isValidOption /\ m.state.value # value
        THEN Return(SetState(m, [value |-> value]), Void)
        ELSE Return(m, Void)

\* HeadlessRadioGroup.setOptions(options)
SetOptions(m, options) == Return(SetState(m, [options |-> options]), Void)

\* HeadlessAccordion.toggleItem(itemId, itemDisabled)
ToggleItem(m, itemId, itemDisabled) ==
    HandleInteraction(m, "toggleItem",
                      [itemId |-> itemId, itemDisabled |-> itemDisabled])

\* HeadlessAccordion.setType(type)
\* Mutant: setType stores the type and keeps every open item.
SetTypeKeepsOpenItems(m, type) == Return(SetState(m, [type |-> type]), Void)

SetType(m, type) ==
    IF type = "single" /\ Len(m.state.openItems) > 1
    THEN Return(SetState(m, [type |-> type, openItems |-> <<m.state.openItems[1]>>]),
                Void)
    ELSE Return(SetState(m, [type |-> type]), Void)

\* HeadlessAccordion.setCollapsible(collapsible)
SetCollapsible(m, collapsible) ==
    Return(SetState(m, [collapsible |-> collapsible]), Void)

\* HeadlessTabs.activateTab(tabId, tabDisabled)
ActivateTab(m, tabId, tabDisabled) ==
    IF m.state.isDisabled \/ tabDisabled
    THEN Return(m, [prevented |-> TRUE,
                    reason |-> IF tabDisabled THEN "tab disabled"
                               ELSE "group disabled"])
    ELSE HandleInteraction(m, "activateTab", [tabId |-> tabId])

\* setDisabled(disabled) of every widget
SetDisabled(m, disabled) == Return(SetState(m, [isDisabled |-> disabled]), Void)

\* setLoading(loading) of button and toggle
SetLoading(m, loading) == Return(SetState(m, [isLoading |-> loading]), Void)

\* HeadlessInput.setReadOnly(readOnly)
SetReadOnly(m, readOnly) == Return(SetState(m, [isReadOnly |-> readOnly]), Void)

\* setError(error) of every widget; the input's also stores isValid: !error.
SetError(m, error) ==
    IF m.widget = "input"
    THEN Return(SetState(m, [error |-> error, isValid |-> ~Truthy(error)]), Void)
    ELSE Return(SetState(m, [error |-> error]), Void)

\* press(isPressed) of button, toggle, checkbox and slider: the button's has no
\* guard, the toggle's returns when disabled or loading, the others' when
\* disabled.
Press(m, isPressed) ==
    IF m.widget # "button" /\ (m.state.isDisabled \/ Flag(m.state, "isLoading"))
    THEN Return(m, Void)
    ELSE Return(SetState(m, [isPressed |-> isPressed]), Void)

\* HeadlessAccordion.setOpenItems(openItems)
SetOpenItems(m, openItems) == Return(SetState(m, [openItems |-> openItems]), Void)

----------------------------------------------------------------------------
(* The instance and the top-level calls of a client *)

Self ==
    [widget |-> widget, state |-> state, states |-> states,
     currentState |-> currentState, history |-> history,
     currentPosition |-> currentPosition, observers |-> observers,
     emitter |-> emitter, events |-> <<>>, ret |-> result]

Fields(m) ==
    [state |-> m.state, currentState |-> m.currentState, history |-> m.history,
     currentPosition |-> m.currentPosition, observers |-> m.observers]

\* Outside a run: no setState call is being followed.
NoRun == [phase |-> "none", pres |-> <<>>, oks |-> <<>>, post |-> <<>>,
          undos |-> 0, redos |-> 0, prev |-> "none", prevOk |-> FALSE,
          prev2 |-> "none", prev2Ok |-> FALSE]

\* The window of the last MaxRun setState calls.
Window(s) == IF Len(s) > MaxRun THEN Tail(s) ELSE s

\* The two calls before the top-level call that is returning, and what they
\* returned.
TailAfter ==
    [NoRun EXCEPT !.prev = lastOp.name, !.prevOk = result.value,
                  !.prev2 = run.prev, !.prev2Ok = run.prevOk]

\* The run after top-level call op returned: the data state before each setState
\* call of the run (pres), whether it committed (oks), the data state when the
\* last of them returned (post), and the undo and redo calls that followed.
RunAfter(op, m) ==
    LET r == run
    IN  CASE op = "setState" ->
               IF run.phase = "set"
               THEN [r EXCEPT !.pres = Window(Append(@, state)),
                              !.oks = Window(Append(@, m.ret.value)),
                              !.post = m.state]
               ELSE [r EXCEPT !.phase = "set", !.pres = <<state>>,
                              !.oks = <<m.ret.value>>, !.post = m.state,
                              !.undos = 0, !.redos = 0]
          [] op = "undo" ->
               IF run.phase \in {"set", "undo"} /\ run.undos < Len(run.pres)
               THEN [r EXCEPT !.phase = "undo", !.undos = @ + 1]
               ELSE [r EXCEPT !.phase = "none", !.pres = <<>>, !.oks = <<>>,
                              !.post = <<>>, !.undos = 0, !.redos = 0]
          [] OTHER ->
               IF run.phase \in {"undo", "redo"} /\ run.redos < run.undos
               THEN [r EXCEPT !.phase = "redo", !.redos = @ + 1]
               ELSE [r EXCEPT !.phase = "none", !.pres = <<>>, !.oks = <<>>,
                              !.post = <<>>, !.undos = 0, !.redos = 0]

\* The client follows no calls, has no second instance and handles no arrays.
NoCalls == <<>>
NoTwin == <<>>
NoHeap == <<>>

\* No hook is mounted on the instance.
NoHook == <<>>

\* The callbacks useHeadlessComponent subscribes in its effect, each to the
\* event it is named after; onTransition is the arrow function subscribed to
\* stateTransition.
HookCallbacks ==
    [stateChanged |-> "onStateChanged", cssStateChanged |-> "onCssStateChanged",
     stateTransition |-> "onTransition", historyChanged |-> "onHistoryChanged"]

\* The React state after the hook's callback of log record e has run:
\* setComponentState(newState), setCssState(newCssState), setHistory(newHistory),
\* and for onTransition setComponentState(component.getState()) and
\* setCssState(component.getCSSState()), read while transitionToState is
\* publishing stateTransition: the data state is the one of the payload and
\* the node the one it names.
HookSet(h, e, w) ==
    CASE e.data.callback = "onStateChanged" -> [h EXCEPT !.componentState = e.data.data]
      [] e.data.callback = "onCssStateChanged" -> [h EXCEPT !.cssState = e.data.data]
      [] e.data.callback = "onHistoryChanged" -> [h EXCEPT !.history = e.data.data]
      [] e.data.callback = "onTransition" ->
           [h EXCEPT !.componentState = e.data.data.state,
                     !.cssState = GetCSSState([widget |-> w,
                                               state |-> e.data.data.state,
                                               currentState |-> e.data.data.stateName])]
      [] OTHER -> h

RECURSIVE HookAfter(_, _, _)

\* The React state of the hook after the callbacks recorded in the log of a
\* call have run, in order.
HookAfter(h, log, w) ==
    IF log = <<>> THEN h
    ELSE HookAfter(IF Head(log).kind = "callback" THEN HookSet(h, Head(log), w) ELSE h,
                   Tail(log), w)

\* The call is not one the client follows, and neither reaches a second
\* instance nor an array the client holds.
Unwatched ==
    /\ calls' = calls
    /\ twin' = twin
    /\ heap' = heap

\* The client has only the instance.
Unobserved ==
    /\ hook = NoHook
    /\ calls = NoCalls
    /\ twin = NoTwin
    /\ heap = NoHeap

\* One top-level call op(arg) that takes the instance to m; r is the run after it.
Returned(op, arg, m, r) ==
    /\ widget' = m.widget
    /\ state' = m.state
    /\ states' = m.states
    /\ currentState' = m.currentState
    /\ history' = m.history
    /\ currentPosition' = m.currentPosition
    /\ observers' = m.observers
    /\ emitter' = m.emitter
    /\ events' = m.events
    /\ result' = m.ret
    /\ lastOp' = [name |-> op, arg |-> arg]
    /\ pre' = Fields(Self)
    /\ run' = r
    /\ hook' = HookAfter(hook, m.events, m.widget)

\* A top-level call that is neither subscribe nor a call of an unsubscribe
\* function.
Call(op, arg, m, r) ==
    /\ Returned(op, arg, m, r)
    /\ subscriptions' = subscriptions
    /\ Unwatched

RECURSIVE SubscribeEach(_, _, _)

\* subscribe(event, callback) for each callback of the list, in order.
SubscribeEach(m, event, callbacks) ==
    IF callbacks = <<>> THEN m
    ELSE SubscribeEach(Subscribe(m, event, Head(callbacks)), event, Tail(callbacks))

\* The instance after its constructor, built on one copy of the EventEmitter
\* class, and after the client subscribed the callbacks to the event.
ConstructedOn(w, copy, event, callbacks) ==
    \E m \in {SubscribeEach([Construct(w) EXCEPT !.emitter = copy], event, callbacks)} :
        /\ widget = m.widget
        /\ state = m.state
        /\ states = m.states
        /\ currentState = m.currentState
        /\ history = m.history
        /\ currentPosition = m.currentPosition
        /\ observers = m.observers
        /\ emitter = m.emitter
        /\ events = m.events
        /\ result = m.ret
        /\ lastOp = [name |-> "new", arg |-> <<>>]
        /\ pre = [state |-> m.state, currentState |-> NoState, history |-> <<>>,
                  currentPosition |-> -1, observers |-> m.observers]
        /\ run = NoRun
        /\ subscriptions = [k \in DOMAIN callbacks |->
                               [event |-> event, callback |-> callbacks[k], calls |-> 0]]
        /\ Unobserved

\* new HeadlessButton() and the like: the instance after its constructor.
Constructed(w) ==
    \E m \in {Construct(w)} :
        /\ widget = m.widget
        /\ state = m.state
        /\ states = m.states
        /\ currentState = m.currentState
        /\ history = m.history
        /\ currentPosition = m.currentPosition
        /\ observers = m.observers
        /\ emitter = m.emitter
        /\ events = m.events
        /\ result = m.ret
        /\ lastOp = [name |-> "new", arg |-> <<>>]
        /\ pre = [state |-> m.state, currentState |-> NoState, history |-> <<>>,
                  currentPosition |-> -1, observers |-> NoObservers]
        /\ run = NoRun
        /\ subscriptions = <<>>
        /\ Unobserved

\* { field: value }
Partial(field, value) == [k \in {field} |-> value]

\* The partial states the client of Spec passes to setState.
CorePartials ==
    {Partial(k, b) : k \in {"isDisabled", "isHovered"}, b \in BOOLEAN}
    \cup {Partial("error", e) : e \in ErrorValues}

\* The partial states the client of SpecVisual passes to setState.
ButtonPartials ==
    {Partial(k, b) : k \in BoolFields, b \in BOOLEAN}
    \cup {Partial("error", e) : e \in ErrorValues}
    \cup {[isDisabled |-> b, isLoading |-> b] : b \in BOOLEAN}

(* Spec: a button driven by setState, undo and redo, the run followed. *)

SetStateCall ==
    \E p \in CorePartials :
        LET m == SetState(Self, p)
        IN  /\ Len(m.history) <= MaxHist
            /\ Call("setState", p, m, RunAfter("setState", m))

UndoCall == LET m == Undo(Self) IN Call("undo", <<>>, m, RunAfter("undo", m))

RedoCall == LET m == Redo(Self) IN Call("redo", <<>>, m, RunAfter("redo", m))

Init == Constructed("button")

Next == SetStateCall \/ UndoCall \/ RedoCall

Spec == Init /\ [][Next]_vars

(* SpecTail: the same button and calls, the two previous calls followed. *)

SetStateTail ==
    \E p \in CorePartials :
        LET m == SetState(Self, p)
        IN  /\ Len(m.history) <= MaxHist
            /\ Call("setState", p, m, TailAfter)

UndoTail == Call("undo", <<>>, Undo(Self), TailAfter)

RedoTail == Call("redo", <<>>, Redo(Self), TailAfter)

NextTail == SetStateTail \/ UndoTail \/ RedoTail

SpecTail == Init /\ [][NextTail]_vars

(* SpecVisual: a button whose every field is set, undone and redone. *)

SetFieldsCall ==
    \E p \in ButtonPartials :
        LET m == SetState(Self, p)
        IN  /\ Len(m.history) <= MaxHistVisual
            /\ Call("setState", p, m, NoRun)

UndoFieldsCall == Call("undo", <<>>, Undo(Self), NoRun)

RedoFieldsCall == Call("redo", <<>>, Redo(Self), NoRun)

NextVisual == SetFieldsCall \/ UndoFieldsCall \/ RedoFieldsCall

SpecVisual == Init /\ [][NextVisual]_vars

(* SpecWidgets: an instance of any widget class driven through its action      *)
(* methods and the setters that raise and lower its guards.                    *)

\* The keys of the keydown events.
Keys == {" ", "Enter", "ArrowLeft", "ArrowRight", "End", "Tab"}

\* The texts typed into an input.
InputValues == {"", "x"}

\* The values a slider is asked to take and the ranges it is given.
SliderValues == {-5, 3, 6, 250, NaN}
SliderRanges == {<<0, 10, 4>>, <<10, 0, 1>>, <<0, 10, 0>>}

\* The options of a radio group (the second is disabled) and the values selected.
RadioOptions ==
    <<[value |-> "a", label |-> "A"],
      [value |-> "b", label |-> "B", disabled |-> TRUE]>>
OptionValues == {"a", "b", "z"}

\* The items of an accordion and the tabs of a tab list.
ItemIds == {"i1", "i2"}
TabIds == {"t1", "t2"}

WidgetCall(op, arg, m) ==
    /\ Len(m.history) <= MaxHistWidgets
    /\ Call(op, arg, m, NoRun)

SetDisabledCall ==
    \E b \in BOOLEAN :
        WidgetCall("setDisabled", [disabled |-> b], SetDisabled(Self, b))

SetLoadingCall ==
    /\ widget \in {"button", "toggle"}
    /\ \E b \in BOOLEAN :
           WidgetCall("setLoading", [loading |-> b], SetLoading(Self, b))

SetReadOnlyCall ==
    /\ widget = "input"
    /\ \E b \in BOOLEAN :
           WidgetCall("setReadOnly", [readOnly |-> b], SetReadOnly(Self, b))

SetIndeterminateCall ==
    /\ widget = "checkbox"
    /\ \E b \in BOOLEAN :
           WidgetCall("setIndeterminate", [indeterminate |-> b],
                      SetIndeterminate(Self, b))

SetOptionsCall ==
    /\ widget = "radiogroup"
    /\ WidgetCall("setOptions", [options |-> RadioOptions],
                  SetOptions(Self, RadioOptions))

SetRangeCall ==
    /\ widget = "slider"
    /\ \E r \in SliderRanges :
           WidgetCall("setRange", [min |-> r[1], max |-> r[2], step |-> r[3]],
                      SetRange(Self, r[1], r[2], r[3]))

SetTypeCall ==
    /\ widget = "accordion"
    /\ \E type \in {"single", "multiple"} :
           WidgetCall("setType", [type |-> type], SetType(Self, type))

SetCollapsibleCall ==
    /\ widget = "accordion"
    /\ \E b \in BOOLEAN :
           WidgetCall("setCollapsible", [collapsible |-> b], SetCollapsible(Self, b))

ClickCall ==
    /\ widget = "button"
    /\ WidgetCall("click", <<>>, ButtonClick(Self))

ToggleCall ==
    /\ widget \in {"toggle", "checkbox"}
    /\ WidgetCall("toggle", <<>>,
                  IF widget = "toggle" THEN ToggleToggle(Self)
                  ELSE CheckboxToggle(Self))

HoverCall ==
    /\ widget \in {"button", "toggle", "checkbox", "slider"}
    /\ \E b \in BOOLEAN : WidgetCall("hover", [isHovered |-> b], Hover(Self, b))

FocusCall ==
    \E b \in BOOLEAN : WidgetCall("focus", [isFocused |-> b], Focus(Self, b))

KeydownCall ==
    /\ widget \in {"button", "toggle", "checkbox", "slider"}
    /\ \E key \in Keys : WidgetCall("keydown", [key |-> key], Keydown(Self, key))

SetValueCall ==
    \/ /\ widget = "input"
       /\ \E v \in InputValues :
              WidgetCall("setValue", [value |-> v], InputSetValue(Self, v))
    \/ /\ widget = "slider"
       /\ \E v \in SliderValues :
              WidgetCall("setValue", [value |-> v], SliderSetValue(Self, v))

SelectOptionCall ==
    /\ widget = "radiogroup"
    /\ \E v \in OptionValues :
           WidgetCall("selectOption", [value |-> v], SelectOption(Self, v))

ToggleItemCall ==
    /\ widget = "accordion"
    /\ \E itemId \in ItemIds, itemDisabled \in BOOLEAN :
           WidgetCall("toggleItem",
                      [itemId |-> itemId, itemDisabled |-> itemDisabled],
                      ToggleItem(Self, itemId, itemDisabled))

ActivateTabCall ==
    /\ widget = "tabs"
    /\ \E tabId \in TabIds, tabDisabled \in BOOLEAN :
           WidgetCall("activateTab", [tabId |-> tabId, tabDisabled |-> tabDisabled],
                      ActivateTab(Self, tabId, tabDisabled))

InitWidgets == \E w \in Widgets : Constructed(w)

NextWidgets ==
    \/ SetDisabledCall \/ SetLoadingCall \/ SetReadOnlyCall \/ SetIndeterminateCall
    \/ SetOptionsCall \/ SetRangeCall \/ SetTypeCall \/ SetCollapsibleCall
    \/ ClickCall \/ ToggleCall \/ HoverCall \/ FocusCall \/ KeydownCall
    \/ SetValueCall \/ SelectOptionCall \/ ToggleItemCall \/ ActivateTabCall

SpecWidgets == InitWidgets /\ [][NextWidgets]_vars

\* The interaction types a client passes to handleInteraction: those of the
\* strategies of all the widgets, and one that no widget registers.
InteractionTypes ==
    {"click", "hover", "focus", "keyboard", "input", "select", "update",
     "toggleItem", "activateTab", "drag"}

\* c.handleInteraction(type, {}) with a type for which the widget has
\* registered no strategy.
UnknownInteractionCall ==
    \E type \in InteractionTypes :
        /\ type \notin DOMAIN InteractionStrategies(widget)
        /\ \E m \in {HandleInteraction(Self, type, <<>>)} :
               WidgetCall("handleInteraction", [type |-> type], m)

\* The widgets driven through their action methods and through
\* handleInteraction with types they have no strategy for.
NextDispatch == NextWidgets \/ UnknownInteractionCall

SpecDispatch == InitWidgets /\ [][NextDispatch]_vars

(* SpecHistory: the widgets driven through their action methods and setters,   *)
(* setError and press included, and through undo and redo.                     *)

\* The errors a client passes to setError.
Errors == {Null, "E", ""}

SetErrorCall ==
    \E error \in Errors :
        \E m \in {SetError(Self, error)} :
            WidgetCall("setError", [error |-> error], m)

PressCall ==
    /\ widget \in {"button", "toggle", "checkbox", "slider"}
    /\ \E b \in BOOLEAN :
           \E m \in {Press(Self, b)} : WidgetCall("press", [isPressed |-> b], m)

UndoHistory == \E m \in {Undo(Self)} : Call("undo", <<>>, m, NoRun)

RedoHistory == \E m \in {Redo(Self)} : Call("redo", <<>>, m, NoRun)

NextHistory ==
    NextWidgets \/ SetErrorCall \/ PressCall \/ UndoHistory \/ RedoHistory

SpecHistory == InitWidgets /\ [][NextHistory]_vars

(* SpecFocus: every widget driven by setDisabled, focus, undo and redo, with   *)
(* a history long enough for a widget to be focused, disabled and then blurred. *)

MaxHistFocus == 3

FocusedCall(op, arg, m) ==
    /\ Len(m.history) <= MaxHistFocus
    /\ Call(op, arg, m, NoRun)

SetDisabledFocused ==
    \E b \in BOOLEAN :
        FocusedCall("setDisabled", [disabled |-> b], SetDisabled(Self, b))

FocusFocused ==
    \E b \in BOOLEAN : FocusedCall("focus", [isFocused |-> b], Focus(Self, b))

NextFocus == SetDisabledFocused \/ FocusFocused \/ UndoHistory \/ RedoHistory

SpecFocus == InitWidgets /\ [][NextFocus]_vars

(* SpecAccordion: an accordion driven by toggleItem, setType, setCollapsible,  *)
(* undo and redo, with a history long enough to open two items of a 'multiple' *)
(* accordion and make it 'single' again.                                       *)

MaxHistAccordion == 4

AccordionCall(op, arg, m) ==
    /\ Len(m.history) <= MaxHistAccordion
    /\ Call(op, arg, m, NoRun)

ToggleItemAccordion ==
    \E itemId \in ItemIds, itemDisabled \in BOOLEAN :
        AccordionCall("toggleItem", [itemId |-> itemId, itemDisabled |-> itemDisabled],
                      ToggleItem(Self, itemId, itemDisabled))

SetTypeAccordion ==
    \E type \in {"single", "multiple"} :
        AccordionCall("setType", [type |-> type], SetType(Self, type))

SetCollapsibleAccordion ==
    \E b \in BOOLEAN :
        AccordionCall("setCollapsible", [collapsible |-> b], SetCollapsible(Self, b))

InitAccordion == Constructed("accordion")

NextAccordion ==
    \/ ToggleItemAccordion \/ SetTypeAccordion \/ SetCollapsibleAccordion
    \/ UndoHistory \/ RedoHistory

SpecAccordion == InitAccordion /\ [][NextAccordion]_vars

(* SpecRadio: a radio group whose list of options is set once, then driven by  *)
(* selectOption, setValue and setDisabled.                                     *)

MaxHistRadio == 4

\* A list in which the first option of a value is disabled and a later one of
\* the same value is not.
RepeatedOptions ==
    <<[value |-> "a", label |-> "A", disabled |-> TRUE],
      [value |-> "a", label |-> "A again"],
      [value |-> "c", label |-> "C", disabled |-> FALSE]>>

OptionLists == {RadioOptions, RepeatedOptions}

\* What a client passes to setValue: the values of selectOption, and null.
SetValueValues == OptionValues \cup {"c", Null}

RadioCall(op, arg, m) ==
    /\ Len(m.history) <= MaxHistRadio
    /\ Call(op, arg, m, NoRun)

\* The first call on the group: the list of options, which is not set again.
SetOptionsRadio ==
    /\ lastOp.name = "new"
    /\ \E options \in OptionLists :
           RadioCall("setOptions", [options |-> options], SetOptions(Self, options))

SelectOptionRadio ==
    /\ lastOp.name # "new"
    /\ \E v \in OptionValues \cup {"c"} :
           RadioCall("selectOption", [value |-> v], SelectOption(Self, v))

SetValueRadio ==
    /\ lastOp.name # "new"
    /\ \E v \in SetValueValues :
           RadioCall("setValue", [value |-> v], RadioSetValue(Self, v))

SetDisabledRadio ==
    /\ lastOp.name # "new"
    /\ \E b \in BOOLEAN :
           RadioCall("setDisabled", [disabled |-> b], SetDisabled(Self, b))

InitRadio == Constructed("radiogroup")

NextRadio == SetOptionsRadio \/ SelectOptionRadio \/ SetValueRadio \/ SetDisabledRadio

SpecRadio == InitRadio /\ [][NextRadio]_vars

(* SpecCheckbox: a checkbox driven by toggle, check, uncheck, setIndeterminate, *)
(* keydown of Space and Enter, undo and redo.                                   *)

MaxHistCheckbox == 3

ActivationKeys == {" ", "Enter"}

CheckboxCall(op, arg, m) ==
    /\ Len(m.history) <= MaxHistCheckbox
    /\ Call(op, arg, m, NoRun)

ToggleCheckbox == CheckboxCall("toggle", <<>>, CheckboxToggle(Self))

CheckCheckbox == CheckboxCall("check", <<>>, CheckboxCheck(Self))

UncheckCheckbox == CheckboxCall("uncheck", <<>>, CheckboxUncheck(Self))

SetIndeterminateCheckbox ==
    \E b \in BOOLEAN :
        CheckboxCall("setIndeterminate", [indeterminate |-> b], SetIndeterminate(Self, b))

KeydownCheckbox ==
    \E key \in ActivationKeys : CheckboxCall("keydown", [key |-> key], Keydown(Self, key))

InitCheckbox == Constructed("checkbox")

NextCheckbox ==
    \/ ToggleCheckbox \/ CheckCheckbox \/ UncheckCheckbox \/ SetIndeterminateCheckbox
    \/ KeydownCheckbox \/ UndoHistory \/ RedoHistory

SpecCheckbox == InitCheckbox /\ [][NextCheckbox]_vars

(* SpecHook: the instance of a mounted useHeadlessComponent, driven through    *)
(* the methods of the component the hook returns.                              *)

\* The variables of the instance m that a constructor, and the subscriptions
\* that follow it, leave.
Started(m) ==
    /\ widget = m.widget
    /\ state = m.state
    /\ states = m.states
    /\ currentState = m.currentState
    /\ history = m.history
    /\ currentPosition = m.currentPosition
    /\ observers = m.observers
    /\ emitter = m.emitter
    /\ events = m.events
    /\ result = m.ret
    /\ lastOp = [name |-> "new", arg |-> <<>>]
    /\ pre = [state |-> m.state, currentState |-> NoState, history |-> <<>>,
              currentPosition |-> -1, observers |-> m.observers]
    /\ run = NoRun

\* The effect of useHeadlessComponent: the four subscriptions, in its order.
Mount(m) ==
    LET Each(event, m1) == Subscribe(m1, event, HookCallbacks[event])
    IN  Each("historyChanged",
            Each("stateTransition", Each("cssStateChanged", Each("stateChanged", m))))

\* The classes the hook is used with.
HookWidgets == {"button", "toggle", "tabs"}

\* useMemo(() => new HeadlessComponentClass()), the three useState calls and
\* the effect with its initial sync.
InitHook ==
    \E w \in HookWidgets, copy \in EmitterCopies :
        \E m \in {Mount([Construct(w) EXCEPT !.emitter = copy])} :
            /\ Started(m)
            /\ subscriptions =
                   <<[event |-> "stateChanged", callback |-> "onStateChanged", calls |-> 0],
                     [event |-> "cssStateChanged", callback |-> "onCssStateChanged",
                      calls |-> 0],
                     [event |-> "stateTransition", callback |-> "onTransition", calls |-> 0],
                     [event |-> "historyChanged", callback |-> "onHistoryChanged",
                      calls |-> 0]>>
            /\ hook = [componentState |-> GetState(m), cssState |-> GetCSSState(m),
                       history |-> GetHistory(m)]
            /\ calls = NoCalls
            /\ twin = NoTwin
            /\ heap = NoHeap

\* component.setDisabled(...), component.click() and the like from the event
\* handlers of the rendering component, and the hook's undo and redo.
NextHook ==
    \/ SetDisabledCall \/ SetLoadingCall \/ SetErrorCall
    \/ ClickCall \/ ToggleCall \/ HoverCall \/ FocusCall \/ ActivateTabCall
    \/ UndoHistory \/ RedoHistory

SpecHook == InitHook /\ [][NextHook]_vars

(* SpecScenario: a toggle driven by toggle(), setState, undo and redo, the     *)
(* calls made since its construction followed.                                 *)

\* The calls are followed up to the MaxCalls-th.
MaxCalls == 5

\* The partial states the client passes to setState.
TogglePartials ==
    {Partial(k, b) : k \in {"isDisabled", "isLoading"}, b \in BOOLEAN}

\* A call that the client follows.
Followed(op, arg, m) ==
    /\ Len(calls) < MaxCalls
    /\ Returned(op, arg, m, NoRun)
    /\ subscriptions' = subscriptions
    /\ calls' = Append(calls, [name |-> op, arg |-> arg])
    /\ twin' = twin
    /\ heap' = heap

ToggleFollowed == \E m \in {ToggleToggle(Self)} : Followed("toggle", <<>>, m)

SetStateFollowed ==
    \E p \in TogglePartials : \E m \in {SetState(Self, p)} : Followed("setState", p, m)

UndoFollowed == \E m \in {Undo(Self)} : Followed("undo", <<>>, m)

RedoFollowed == \E m \in {Redo(Self)} : Followed("redo", <<>>, m)

InitScenario ==
    \E m \in {Construct("toggle")} :
        /\ Started(m)
        /\ subscriptions = <<>>
        /\ hook = NoHook
        /\ calls = <<>>
        /\ twin = NoTwin
        /\ heap = NoHeap

NextScenario == ToggleFollowed \/ SetStateFollowed \/ UndoFollowed \/ RedoFollowed

SpecScenario == InitScenario /\ [][NextScenario]_vars

(* SpecTwin: two instances of one class, the second with subscribers of its    *)
(* own that only record, throw or unsubscribe, both given the same calls.      *)

MaxHistTwin == 2

\* The classes of the two instances.
TwinWidgets == {"button", "toggle"}

\* The stateChanged subscribers of the second instance.
TwinSubscribers == {<<>>, <<"log">>, <<"thrower", "log">>, <<"once", "log">>}

\* The partial states the client passes to setState of both.
TwinPartials ==
    {Partial(k, b) : k \in {"isDisabled", "isLoading", "isPressed"}, b \in BOOLEAN}
    \cup {Partial("error", e) : e \in {Null, "E"}}

\* The second instance, about to be called.
Twin == [twin EXCEPT !.events = <<>>]

\* The same call made on both instances, which took the first to m and the
\* second to t.
Both(op, arg, m, t) ==
    /\ Len(m.history) <= MaxHistTwin
    /\ Returned(op, arg, m, NoRun)
    /\ subscriptions' = subscriptions
    /\ calls' = calls
    /\ twin' = t
    /\ heap' = heap

SetStateTwin ==
    \E p \in TwinPartials :
        \E m \in {SetState(Self, p)}, t \in {SetState(Twin, p)} :
            Both("setState", p, m, t)

UndoTwin == \E m \in {Undo(Self)}, t \in {Undo(Twin)} : Both("undo", <<>>, m, t)

RedoTwin == \E m \in {Redo(Self)}, t \in {Redo(Twin)} : Both("redo", <<>>, m, t)

HoverTwin ==
    \E b \in BOOLEAN :
        \E m \in {Hover(Self, b)}, t \in {Hover(Twin, b)} :
            Both("hover", [isHovered |-> b], m, t)

FocusTwin ==
    \E b \in BOOLEAN :
        \E m \in {Focus(Self, b)}, t \in {Focus(Twin, b)} :
            Both("focus", [isFocused |-> b], m, t)

\* click() of the button, toggle() of the toggle
ClickTwin ==
    \E m \in {HandleInteraction(Self, "click", <<>>)},
       t \in {HandleInteraction(Twin, "click", <<>>)} :
        Both("click", <<>>, m, t)

InitTwin ==
    \E w \in TwinWidgets, copy \in EmitterCopies, callbacks \in TwinSubscribers :
        \E m \in {Construct(w)} :
            /\ Started(m)
            /\ subscriptions = <<>>
            /\ hook = NoHook
            /\ calls = NoCalls
            /\ twin = SubscribeEach([m EXCEPT !.emitter = copy],
                                    "stateChanged", callbacks)
            /\ heap = NoHeap

NextTwin ==
    SetStateTwin \/ UndoTwin \/ RedoTwin \/ HoverTwin \/ FocusTwin \/ ClickTwin

SpecTwin == InitTwin /\ [][NextTwin]_vars

(* SpecAlias: an accordion whose client keeps the objects it passes to the     *)
(* instance and gets from it, and writes to them.  A snapshot of the model     *)
(* holds the elements of openItems; heap tells which array object each         *)
(* openItems is, so that a write to an array reaches every snapshot that       *)
(* refers to it.                                                               *)

MaxHistAlias == 2

\* The arrays are numbered as they are created, up to MaxArrays.
MaxArrays == 3

\* An array holds at most MaxItems elements.
MaxItems == 2

\* The arrays the client creates and passes to setOpenItems.
OpenItemLists == {<<"i1">>}

\* The items the client pushes into an array it holds.
PushedItems == {"i2"}

\* The client holds no copy of the state and has passed no array.
NoCopy == [object |-> "none", items |-> 0, snapshot |-> <<>>]
NoPassed == [items |-> 0, elements |-> <<>>]

\* After the constructor: the array defineInitialState() created is the first.
InitialHeap ==
    [next |-> 2, state |-> 1, history |-> <<>>, copy |-> NoCopy, passed |-> NoPassed]

\* The arrays after the call that took the instance to m, whose partial state
\* carried the array stored (0: it had no openItems).  setState builds
\* previousState = { ...this.state } and nextState = { ...this.state, ...newState }:
\* the spread copies the reference, so previousState has the array of the
\* state, and nextState the array of the partial state or else the array of
\* the state too; the closures assign these two objects to this.state.
HeapAfter(op, m, stored) ==
    CASE op = "undo" ->
           IF m.ret.value
           THEN [heap EXCEPT !.state = heap.history[currentPosition + 1].previousState]
           ELSE heap
      [] op = "redo" ->
           IF m.ret.value
           THEN [heap EXCEPT !.state = heap.history[currentPosition + 2].nextState]
           ELSE heap
      [] OTHER ->
           IF m.currentPosition # currentPosition
           THEN LET array == IF stored # 0 THEN stored ELSE heap.state
                IN  [heap EXCEPT
                        !.history = Append(SubSeq(@, 1, currentPosition + 1),
                                           [previousState |-> heap.state,
                                            nextState |-> array]),
                        !.state = array,
                        !.next = IF stored = @ THEN @ + 1 ELSE @]
           ELSE heap

\* A call on the instance that took it to m and the arrays to h.
Aliasing(op, arg, m, h) ==
    /\ Len(m.history) <= MaxHistAlias
    /\ h.next <= MaxArrays + 1
    /\ Returned(op, arg, m, NoRun)
    /\ subscriptions' = subscriptions
    /\ calls' = calls
    /\ twin' = twin
    /\ heap' = h

\* const items = [...]; c.setOpenItems(items): the client keeps items.
SetOpenItemsAlias ==
    \E items \in OpenItemLists :
        \E m \in {SetOpenItems(Self, items)} :
            Aliasing("setOpenItems", [openItems |-> items], m,
                     [HeapAfter("setOpenItems", m, heap.next) EXCEPT
                         !.next = heap.next + 1,
                         !.passed = [items |-> heap.next, elements |-> items]])

\* c.toggleItem(itemId): the strategy passes an array it has just created.
ToggleItemAlias ==
    \E itemId \in ItemIds :
        \E m \in {ToggleItem(Self, itemId, FALSE)} :
            Aliasing("toggleItem", [itemId |-> itemId], m,
                     HeapAfter("toggleItem", m, heap.next))

\* c.setDisabled(disabled): the partial state has no openItems.
SetDisabledAlias ==
    \E b \in BOOLEAN :
        \E m \in {SetDisabled(Self, b)} :
            Aliasing("setDisabled", [disabled |-> b], m, HeapAfter("setDisabled", m, 0))

UndoAlias == \E m \in {Undo(Self)} : Aliasing("undo", <<>>, m, HeapAfter("undo", m, 0))

RedoAlias == \E m \in {Redo(Self)} : Aliasing("redo", <<>>, m, HeapAfter("redo", m, 0))

\* const copy = c.getState(): { ...this.state } is a new object whose openItems
\* is the array of the state.  The payloads of stateChanged and
\* stateTransition are results of getState() as well.
GetStateAlias ==
    \E m \in {Return(Self, GetState(Self))} :
        Aliasing("getState", <<>>, m,
                 [heap EXCEPT !.copy = [object |-> "copy", items |-> heap.state,
                                        snapshot |-> GetState(Self)]])

\* The snapshot s, whose openItems is the array ref, after array was given
\* the elements.
Written(s, ref, array, elements) ==
    IF ref = array THEN [s EXCEPT !.openItems = elements] ELSE s

\* A write by the client that gave array the elements: every snapshot that
\* refers to the array has them.
WriteArray(op, array, elements) ==
    /\ Returned(op, [array |-> array, elements |-> elements],
                [Self EXCEPT
                    !.state = Written(@, heap.state, array, elements),
                    !.history =
                        [i \in DOMAIN history |->
                            [previousState |->
                                 Written(history[i].previousState,
                                         heap.history[i].previousState, array, elements),
                             nextState |->
                                 Written(history[i].nextState,
                                         heap.history[i].nextState, array, elements)]]],
                NoRun)
    /\ subscriptions' = subscriptions
    /\ calls' = calls
    /\ twin' = twin
    /\ heap' = [heap EXCEPT
                   !.copy = IF @.items = array
                            THEN [@ EXCEPT !.snapshot.openItems = elements] ELSE @,
                   !.passed = IF @.items = array
                              THEN [@ EXCEPT !.elements = elements] ELSE @]

\* copy.openItems.push(item), on the object getState() returned.
PushIntoCopy ==
    /\ heap.copy.object # "none"
    /\ Len(heap.copy.snapshot.openItems) < MaxItems
    /\ \E item \in PushedItems :
           WriteArray("copy.openItems.push", heap.copy.items,
                      Append(heap.copy.snapshot.openItems, item))

\* items.push(item), on the array that was passed to setOpenItems.
PushIntoPassed ==
    /\ heap.passed.items # 0
    /\ Len(heap.passed.elements) < MaxItems
    /\ \E item \in PushedItems :
           WriteArray("items.push", heap.passed.items,
                      Append(heap.passed.elements, item))

\* copy.isDisabled = !copy.isDisabled, on the object getState() returned: the
\* object is the state of the instance only if getState() returned it.
AssignToCopy ==
    /\ heap.copy.object # "none"
    /\ \E m \in {IF heap.copy.object = "state"
                 THEN [Self EXCEPT !.state.isDisabled = ~heap.copy.snapshot.isDisabled]
                 ELSE Self} :
           /\ Returned("copy.isDisabled =", [value |-> ~heap.copy.snapshot.isDisabled],
                       m, NoRun)
           /\ subscriptions' = subscriptions
           /\ calls' = calls
           /\ twin' = twin
           /\ heap' = [heap EXCEPT !.copy.snapshot.isDisabled = ~@]

InitAlias ==
    \E m \in {Construct("accordion")} :
        /\ Started(m)
        /\ subscriptions = <<>>
        /\ hook = NoHook
        /\ calls = NoCalls
        /\ twin = NoTwin
        /\ heap = InitialHeap

NextAlias ==
    \/ SetOpenItemsAlias \/ ToggleItemAlias \/ SetDisabledAlias
    \/ UndoAlias \/ RedoAlias \/ GetStateAlias
    \/ PushIntoCopy \/ PushIntoPassed \/ AssignToCopy

SpecAlias == InitAlias /\ [][NextAlias]_vars

(* SpecReentrant: a button with a subscriber that calls back into the instance, *)
(* driven by setState, undo and redo.                                           *)

\* The subscriptions of the client: a callback that calls setState from a
\* stateChanged delivery, or one that calls undo or redo from a historyChanged
\* delivery, and a callback that only records, before it or after it.
ReentrantSubscriptions ==
    {[event |-> "stateChanged", callbacks |-> <<"setter", "log">>],
     [event |-> "stateChanged", callbacks |-> <<"log", "setter">>],
     [event |-> "historyChanged", callbacks |-> <<"undoer", "log">>],
     [event |-> "historyChanged", callbacks |-> <<"log", "undoer">>],
     [event |-> "historyChanged", callbacks |-> <<"redoer", "log">>],
     [event |-> "historyChanged", callbacks |-> <<"log", "redoer">>]}

SetStateReentrant ==
    \E p \in CorePartials :
        LET m == SetState(Self, p)
        IN  /\ Len(m.history) <= MaxHistReentrant
            /\ Call("setState", p, m, NoRun)

UndoReentrant ==
    LET m == Undo(Self)
    IN  /\ Len(m.history) <= MaxHistReentrant
        /\ Call("undo", <<>>, m, NoRun)

RedoReentrant ==
    LET m == Redo(Self)
    IN  /\ Len(m.history) <= MaxHistReentrant
        /\ Call("redo", <<>>, m, NoRun)

InitReentrant ==
    \E copy \in EmitterCopies, s \in ReentrantSubscriptions :
        ConstructedOn("button", copy, s.event, s.callbacks)

NextReentrant == SetStateReentrant \/ UndoReentrant \/ RedoReentrant

SpecReentrant == InitReentrant /\ [][NextReentrant]_vars

----------------------------------------------------------------------------
(* A button of a subclass that registers only some of the default nodes, whose *)
(* client calls setState, undo, redo and transitionToState.                    *)

MaxHistRegistry == 2

\* The registries of the subclasses: the default nodes without some of idle,
\* hovered and disabled.
Registries == {DefaultStates \ left : left \in SUBSET {"idle", "hovered", "disabled"}}

\* The names the client passes to transitionToState.
NodeNames == DefaultStates \cup {"frozen"}

SetStateRegistry ==
    \E p \in CorePartials :
        \E m \in {SetState(Self, p)} :
            /\ Len(m.history) <= MaxHistRegistry
            /\ Call("setState", p, m, NoRun)

UndoRegistry == \E m \in {Undo(Self)} : Call("undo", <<>>, m, NoRun)

RedoRegistry == \E m \in {Redo(Self)} : Call("redo", <<>>, m, NoRun)

\* c.transitionToState(stateName)
TransitionToStateCall ==
    \E stateName \in NodeNames :
        \E m \in {Return(TransitionToState(Self, stateName), Void)} :
            Call("transitionToState", stateName, m, NoRun)

InitRegistry ==
    \E registry \in Registries :
        \E m \in {ConstructRegistering("button", registry)} :
            /\ widget = m.widget
            /\ state = m.state
            /\ states = m.states
            /\ currentState = m.currentState
            /\ history = m.history
            /\ currentPosition = m.currentPosition
            /\ observers = m.observers
            /\ emitter = m.emitter
            /\ events = m.events
            /\ result = m.ret
            /\ lastOp = [name |-> "new", arg |-> <<>>]
            /\ pre = [state |-> m.state, currentState |-> NoState, history |-> <<>>,
                      currentPosition |-> -1, observers |-> NoObservers]
            /\ run = NoRun
            /\ subscriptions = <<>>
            /\ Unobserved

NextRegistry ==
    SetStateRegistry \/ UndoRegistry \/ RedoRegistry \/ TransitionToStateCall

SpecRegistry == InitRegistry /\ [][NextRegistry]_vars

----------------------------------------------------------------------------
(* A button whose client subscribes callbacks and causes notifications with    *)
(* setState, undo, redo and hover (SpecEmitter), or subscribes callbacks and   *)
(* calls the unsubscribe functions it got back (SpecSubscriptions).            *)

MaxSubscriptions == 3

MaxUnsubscribeCalls == 2

MaxObservers == 4

MaxHistEmitter == 2

\* The events the client subscribes to.
EmitterEvents == {"stateChanged"}

\* The callbacks the client subscribes.
EmitterCallbacks == {"log", "thrower", "once", "remover", "adder", "swapper"}

\* The partial states the client passes to setState.
EmitterPartials == {[isHovered |-> b] : b \in BOOLEAN}

\* The instance after the call is within the bounds of the exploration.
WithinEmitterBounds(m) ==
    /\ Len(m.history) <= MaxHistEmitter
    /\ \A event \in DOMAIN m.observers : Len(m.observers[event]) <= MaxObservers

\* const unsubscribe = c.subscribe(event, callback)
SubscribeCall ==
    \E event \in EmitterEvents, callback \in EmitterCallbacks :
        \E m \in {Return(Subscribe(Self, event, callback),
                          [unsubscribe |-> Len(subscriptions) + 1])} :
            /\ Len(subscriptions) < MaxSubscriptions
            /\ WithinEmitterBounds(m)
            /\ Returned("subscribe", [event |-> event, callback |-> callback], m, NoRun)
            /\ subscriptions' = Append(subscriptions,
                    [event |-> event, callback |-> callback, calls |-> 0])
            /\ Unwatched

\* unsubscribe(): a call of a function that subscribe returned, which is
\* () => this.unsubscribe(event, callback).
UnsubscribeCall ==
    \E u \in DOMAIN subscriptions :
        \E m \in {Return(Unsubscribe(Self, subscriptions[u].event,
                                      subscriptions[u].callback), Void)} :
            /\ subscriptions[u].calls < MaxUnsubscribeCalls
            /\ Returned("unsubscribe", u, m, NoRun)
            /\ subscriptions' = [subscriptions EXCEPT ![u].calls = @ + 1]
            /\ Unwatched

SetStateEmitter ==
    \E p \in EmitterPartials :
        \E m \in {SetState(Self, p)} :
            /\ WithinEmitterBounds(m)
            /\ Call("setState", p, m, NoRun)

UndoEmitter ==
    \E m \in {Undo(Self)} :
        /\ WithinEmitterBounds(m)
        /\ Call("undo", <<>>, m, NoRun)

RedoEmitter ==
    \E m \in {Redo(Self)} :
        /\ WithinEmitterBounds(m)
        /\ Call("redo", <<>>, m, NoRun)

\* c.hover(isHovered)
HoverEmitter ==
    \E b \in BOOLEAN :
        \E m \in {HandleInteraction(Self, "hover", [isHovered |-> b])} :
            /\ WithinEmitterBounds(m)
            /\ Call("hover", b, m, NoRun)

InitEmitter == \E copy \in EmitterCopies : ConstructedOn("button", copy, "stateChanged", <<>>)

NextEmitter ==
    \/ SubscribeCall
    \/ SetStateEmitter
    \/ UndoEmitter
    \/ RedoEmitter
    \/ HoverEmitter

SpecEmitter == InitEmitter /\ [][NextEmitter]_vars

\* The same button, whose client only subscribes and unsubscribes.
NextSubscriptions == SubscribeCall \/ UnsubscribeCall

SpecSubscriptions == InitEmitter /\ [][NextSubscriptions]_vars

----------------------------------------------------------------------------
(* SpecLate: a button driven by setState, undo and redo, whose client          *)
(* subscribes, at some moment, a stateChanged callback that calls setState.    *)

MaxHistLate == 3

\* c.subscribe('stateChanged', setter), once.
SubscribeSetter ==
    \E m \in {Return(Subscribe(Self, "stateChanged", "setter"),
                      [unsubscribe |-> Len(subscriptions) + 1])} :
        /\ subscriptions = <<>>
        /\ Returned("subscribe", [event |-> "stateChanged", callback |-> "setter"],
                    m, NoRun)
        /\ subscriptions' = <<[event |-> "stateChanged", callback |-> "setter",
                               calls |-> 0]>>
        /\ Unwatched

SetStateLate ==
    \E p \in CorePartials :
        \E m \in {SetState(Self, p)} :
            /\ Len(m.history) <= MaxHistLate
            /\ Call("setState", p, m, NoRun)

UndoLate ==
    \E m \in {Undo(Self)} :
        /\ Len(m.history) <= MaxHistLate
        /\ Call("undo", <<>>, m, NoRun)

RedoLate ==
    \E m \in {Redo(Self)} :
        /\ Len(m.history) <= MaxHistLate
        /\ Call("redo", <<>>, m, NoRun)

NextLate == SubscribeSetter \/ SetStateLate \/ UndoLate \/ RedoLate

SpecLate == InitEmitter /\ [][NextLate]_vars

----------------------------------------------------------------------------
(* Undo/redo round trips (Spec) *)

\* The positions in the run's window of its last n setState calls.
LastCalls(n) == (Len(run.pres) - n + 1)..Len(run.pres)

\* The data state before the last n setState calls of the run.
StateBefore(n) == run.pres[Len(run.pres) - n + 1]

\* C1 as stated: after any N setState calls followed by N undo() calls the data
\* state equals the data state before the N calls.
C1_AnyCalls ==
    run.phase = "undo" => state = StateBefore(run.undos)

\* C1, amended: after N setState calls that each committed (returned true)
\* followed by N undo() calls, the data state equals the data state before the
\* N calls.
C1_UndoRoundTrip ==
    (run.phase = "undo" /\ \A i \in LastCalls(run.undos) : run.oks[i])
        => state = StateBefore(run.undos)

\* Two committing setState calls have been undone by two undo() calls.
C1_Witness ==
    /\ run.phase = "undo"
    /\ run.undos = 2
    /\ \A i \in LastCalls(2) : run.oks[i]
    /\ StateBefore(2) # run.post
    /\ StateBefore(1) # run.post

\* C2 as stated: N setState calls, N undo() calls, then N redo() calls restore the
\* data state that held right after the N setState calls.
C2_AnyCalls ==
    (run.phase = "redo" /\ run.redos = run.undos) => state = run.post

\* C2, amended: N committing setState calls, N undo() calls, then N redo() calls
\* restore the data state that held right after the N setState calls.
C2_RedoRoundTrip ==
    (/\ run.phase = "redo"
     /\ run.redos = run.undos
     /\ \A i \in LastCalls(run.undos) : run.oks[i])
        => state = run.post

\* Two committing setState calls were undone and have been redone.
C2_Witness ==
    /\ run.phase = "redo"
    /\ run.redos = 2
    /\ run.undos = 2
    /\ \A i \in LastCalls(2) : run.oks[i]
    /\ pre.state # state
    /\ state = run.post

----------------------------------------------------------------------------
(* Command history (Spec) *)

\* C3: the cursor lies in [-1, length-1], canUndo holds exactly when the cursor
\* is >= 0 and canRedo exactly when the cursor is < length-1.
C3_CursorInRange ==
    /\ currentPosition \in -1..(Len(history) - 1)
    /\ GetHistory(Self).canUndo <=> currentPosition >= 0
    /\ GetHistory(Self).canRedo <=> currentPosition < Len(history) - 1

\* An undo() has left the cursor inside the history: both undo and redo are possible.
C3_Witness ==
    /\ lastOp.name = "undo"
    /\ currentPosition >= 0
    /\ currentPosition < Len(history) - 1
    /\ GetHistory(Self).canUndo
    /\ GetHistory(Self).canRedo

\* C4 (SpecTail) as stated: after undo() and then any setState() call, redo() returns false.
C4_AnySetState ==
    (lastOp.name = "redo" /\ run.prev = "setState" /\ run.prev2 = "undo")
        => ~result.value

\* C4 (SpecTail), amended: after undo() and then a setState() call that committed (returned
\* true), redo() returns false.
C4_RedoTailInvalidated ==
    (lastOp.name = "redo" /\ run.prev = "setState" /\ run.prevOk
        /\ run.prev2 = "undo")
        => ~result.value

\* redo() was called after an undo() that undid a command and a committing setState().
C4_Witness ==
    /\ lastOp.name = "redo"
    /\ run.prev = "setState"
    /\ run.prevOk
    /\ run.prev2 = "undo"
    /\ run.prev2Ok
    /\ ~result.value

\* The partial leaves every field it names at its current value.
Equivalent(partial, s) == \A k \in DOMAIN partial : partial[k] = s[k]

\* C5: setState with a partial whose merge equals the current snapshot returns
\* false, adds no history entry, leaves cursor and data state unchanged and
\* publishes nothing.
C5_Idempotence ==
    (lastOp.name = "setState" /\ Equivalent(lastOp.arg, pre.state))
        => /\ result = [value |-> FALSE]
           /\ history = pre.history
           /\ currentPosition = pre.currentPosition
           /\ state = pre.state
           /\ currentState = pre.currentState
           /\ events = <<>>

\* setState was called with the current value of a field while the history
\* holds commands.
C5_Witness ==
    /\ lastOp.name = "setState"
    /\ Equivalent(lastOp.arg, pre.state)
    /\ Len(history) > 0
    /\ ~result.value

\* C6: a command executed while the cursor c is not at the tail leaves the old
\* prefix history[0..c] followed by the new command: length = c + 2, the cursor
\* at the tail, canRedo false.
C6_RedoBranchDiscarded ==
    (/\ lastOp.name = "setState"
     /\ result.value
     /\ pre.currentPosition < Len(pre.history) - 1)
        => /\ history = SubSeq(pre.history, 1, pre.currentPosition + 1)
                        \o <<[previousState |-> pre.state, nextState |-> state]>>
           /\ Len(history) = pre.currentPosition + 2
           /\ currentPosition = Len(history) - 1
           /\ ~GetHistory(Self).canRedo

\* A setState committed with two commands of the history undone and one kept.
C6_Witness ==
    /\ lastOp.name = "setState"
    /\ result.value
    /\ pre.currentPosition = 0
    /\ Len(pre.history) = 3
    /\ Len(history) = 2

----------------------------------------------------------------------------
(* Visual-state derivation *)

\* The priority chain of a button, highest first.
ButtonChain == <<"disabled", "loading", "error", "pressed", "focused", "hovered">>

\* The predicate of a node of the chain on a data snapshot.
NodeHolds(node, s) ==
    CASE node = "disabled" -> s.isDisabled
      [] node = "loading" -> s.isLoading
      [] node = "error" -> Truthy(s.error)
      [] node = "pressed" -> s.isPressed
      [] node = "focused" -> s.isFocused
      [] OTHER -> s.isHovered

\* The first node of the chain whose predicate is true, idle when none is.
FirstMatch(chain, s) ==
    LET hits == {i \in DOMAIN chain : NodeHolds(chain[i], s)}
    IN  IF hits = {} THEN "idle"
        ELSE chain[CHOOSE i \in hits : \A j \in hits : i <= j]

\* C7 (SpecVisual): after construction and after every committed, undone or
\* redone change the current node is the first node of the button's chain whose
\* predicate is true on the data snapshot, idle when none is.
C7_FirstMatchingNode == currentState = FirstMatch(ButtonChain, state)

\* A redo() re-applied an error to a pressed and hovered button.
C7_Witness ==
    /\ lastOp.name = "redo"
    /\ result.value
    /\ Truthy(state.error)
    /\ state.isPressed
    /\ currentState = "error"
    /\ pre.currentState = "pressed"

\* The call derived the visual state: a committing setState, an undo or a redo.
Derived == lastOp.name \in {"setState", "undo", "redo"} /\ result.value

\* C8 (Spec): re-deriving into the already-current node calls neither exit() nor
\* enter() and publishes neither stateTransition nor cssStateChanged.
C8_TransitionSuppressed ==
    (Derived /\ currentState = pre.currentState)
        => \A i \in DOMAIN events :
              /\ events[i].kind \notin {"enter", "exit"}
              /\ events[i].name \notin {"stateTransition", "cssStateChanged"}

\* A committed change of the hover flag left a disabled button in node disabled.
C8_Witness ==
    /\ Derived
    /\ lastOp.name = "setState"
    /\ pre.state.isHovered # state.isHovered
    /\ pre.currentState = "disabled"
    /\ currentState = "disabled"
    /\ Len(events) = 1

\* What a transition from node from to node to logs before its
\* cssStateChanged: exit(), enter(), stateTransition with the name and snapshot.
TransitionLog(from, to, s) ==
    (IF from # NoState
     THEN <<[kind |-> "exit", name |-> from, data |-> [node |-> from]]>>
     ELSE <<>>)
    \o <<[kind |-> "enter", name |-> to, data |-> [node |-> to]],
         [kind |-> "notify", name |-> "stateTransition",
          data |-> [stateName |-> to, state |-> s]]>>

IsNotification(e, event) == e.kind = "notify" /\ e.name = event

\* C9 (Spec): a transition to a different node logs exit() of the outgoing node
\* (if any), enter() of the incoming node, one stateTransition with the new name
\* and the full snapshot, then one cssStateChanged; in a committing setState the
\* stateChanged notification follows them and ends the call.
C9_TransitionOrder ==
    ((lastOp.name = "new" \/ Derived) /\ currentState # pre.currentState)
        => LET log == TransitionLog(pre.currentState, currentState, state)
               n == Len(log)
           IN  /\ Len(events) > n
               /\ SubSeq(events, 1, n) = log
               /\ IsNotification(events[n + 1], "cssStateChanged")
               /\ \A i \in (n + 2)..Len(events) :
                      events[i].kind = "notify"
                      /\ events[i].name \notin {"stateTransition", "cssStateChanged"}
               /\ lastOp.name = "setState" =>
                      /\ Len(events) = n + 2
                      /\ events[n + 2] = [kind |-> "notify", name |-> "stateChanged",
                                          data |-> state]

\* A committing setState moved a button from node hovered to node disabled.
C9_Witness ==
    /\ lastOp.name = "setState"
    /\ result.value
    /\ pre.currentState = "hovered"
    /\ currentState = "disabled"
    /\ Len(events) = 5

----------------------------------------------------------------------------
(* Guarded interactions (SpecWidgets) *)

\* The action methods that invoke an interaction.
Interactions ==
    {"click", "toggle", "hover", "focus", "keydown", "setValue", "selectOption",
     "toggleItem", "activateTab"}

\* The semantic events of the strategies.
SemanticEvents ==
    {"clicked", "toggled", "hoverChanged", "focusChanged", "valueChanged",
     "itemToggled", "tabActivated"}

\* The guard condition of interaction op(arg) on data snapshot s: the widget is
\* disabled; or loading, for a click, toggle or key; or read-only, for an input;
\* or the item, tab or option addressed is disabled.  The focus guard is on
\* focusing a disabled widget, not on blurring it.
GuardHolds(op, arg, s) ==
    CASE op \in {"click", "toggle", "keydown"} -> s.isDisabled \/ Flag(s, "isLoading")
      [] op = "hover" -> s.isDisabled
      [] op = "focus" -> s.isDisabled /\ arg.isFocused
      [] op = "setValue" -> s.isDisabled \/ Flag(s, "isReadOnly")
      [] op = "selectOption" ->
           \/ s.isDisabled
           \/ \E i \in DOMAIN s.options :
                 s.options[i].value = arg.value /\ Flag(s.options[i], "disabled")
      [] op = "toggleItem" -> s.isDisabled \/ arg.itemDisabled
      [] op = "activateTab" -> s.isDisabled \/ arg.tabDisabled
      [] OTHER -> FALSE

\* The last call was refused: the data state and the history are as before, no
\* semantic event was published, and the call returned prevented: true with a
\* non-empty reason.
Refused ==
    /\ state = pre.state
    /\ history = pre.history
    /\ currentPosition = pre.currentPosition
    /\ \A i \in DOMAIN events : events[i].name \notin SemanticEvents
    /\ "prevented" \in DOMAIN result
    /\ result.prevented
    /\ "reason" \in DOMAIN result
    /\ result.reason # ""

\* C10 as stated: every interaction, hover included, invoked while the widget's
\* guard condition holds changes no data, adds no history entry, emits no
\* semantic event and returns prevented: true with a non-empty reason.
C10_EveryInteraction ==
    (lastOp.name \in Interactions /\ GuardHolds(lastOp.name, lastOp.arg, pre.state))
        => Refused

\* C10, amended: every interaction other than hover (click/toggle, focus,
\* keyboard, input, select, slider update, toggleItem, activateTab) invoked while
\* its guard condition holds changes no data, adds no history entry, emits no
\* semantic event and returns prevented: true with a non-empty reason.
C10_GuardedInteractions ==
    (/\ lastOp.name \in Interactions \ {"hover"}
     /\ GuardHolds(lastOp.name, lastOp.arg, pre.state))
        => Refused

\* toggle() was refused on a toggle that is loading and not disabled, with
\* commands in its history.
C10_Witness ==
    /\ widget = "toggle"
    /\ lastOp.name = "toggle"
    /\ pre.state.isLoading
    /\ ~pre.state.isDisabled
    /\ Len(history) > 0
    /\ Refused

----------------------------------------------------------------------------
(* Semantic events (SpecWidgets) *)

\* The state-setter reported a real change before position j of the log: a
\* committing setState publishes stateChanged before it returns true, and a
\* setState that returns false publishes nothing.
SetterReportedChangeBefore(j) ==
    \E i \in 1..(j - 1) : IsNotification(events[i], "stateChanged")

\* C11 as stated: a strategy publishes its semantic event (clicked, toggled,
\* hoverChanged, focusChanged, valueChanged, itemToggled, tabActivated) only
\* when the state-setter call it made reported a real change.
C11_EventOnlyAfterChange ==
    lastOp.name \in Interactions
        => \A j \in DOMAIN events :
              events[j].name \in SemanticEvents => SetterReportedChangeBefore(j)

----------------------------------------------------------------------------
(* Re-entrant calls (SpecReentrant) *)

\* The last call delivered a stateChanged notification to the setter callback
\* while isHovered was false: the callback called setState from inside it.
SetterReentered ==
    \E i \in DOMAIN events :
        /\ events[i].kind = "callback"
        /\ events[i].name = "stateChanged"
        /\ events[i].data.callback = "setter"
        /\ ~events[i].data.data.isHovered

RECURSIVE UndoEvery(_)

\* undo() called until it returns false.
UndoEvery(m) == IF CanUndo(m) THEN UndoEvery(Undo(m)) ELSE m

\* The instance once the client has dropped its subscriptions.
Detached == [Self EXCEPT !.observers = NoObservers]

\* C12 as stated: when a stateChanged subscriber calls setState on the instance
\* from inside the delivery of a top-level setState, then once the top-level call
\* has returned the data state is the next snapshot of the command at the cursor,
\* and undoing every command of the history gives the initial data state back.
C12_NestedCommandAppended ==
    (lastOp.name = "setState" /\ SetterReentered)
        => /\ currentPosition >= 0
           /\ Stringify(state) = Stringify(history[currentPosition + 1].nextState)
           /\ Stringify(UndoEvery(Detached).state)
                  = Stringify(DefineInitialState(widget))

\* The callbacks a re-entering callback was called with during the last call:
\* setter while isHovered was false, undoer and redoer always.
ReenteringCalls ==
    {i \in DOMAIN events :
        /\ events[i].kind = "callback"
        /\ events[i].data.callback \in DOMAIN Reenters
        /\ events[i].data.callback = "setter" => ~events[i].data.data.isHovered}

\* How many times callback occurs in the list callbacks.
Occurrences(callbacks, callback) ==
    Cardinality({k \in DOMAIN callbacks : callbacks[k] = callback})

\* How many times callback was called for the notification recorded at
\* position n of the log.
Invocations(n, callback) ==
    Cardinality({i \in DOMAIN events :
                    /\ events[i].kind = "callback"
                    /\ events[i].data.notification = n
                    /\ events[i].data.callback = callback})

\* The notifications of the last call that found a list of callbacks.
Deliveries == {i \in DOMAIN events : events[i].kind = "delivery"}

\* The notification whose list is recorded at position i called each callback
\* of that list once for each of its registrations.
DeliveredToRegistered(i) ==
    \A callback \in {events[i].data.callbacks[k] : k \in DOMAIN events[i].data.callbacks} :
        Invocations(events[i].data.notification, callback)
            = Occurrences(events[i].data.callbacks, callback)

\* C13: when a callback calls setState, undo or redo on the instance during a
\* notification, every notification of the call, the interrupted ones and the
\* nested ones, still calls each callback that was registered for its event when
\* it started exactly once.
C13_DeliveryNotCorrupted ==
    ReenteringCalls # {} => \A i \in Deliveries : DeliveredToRegistered(i)

\* An undo whose historyChanged delivery was interrupted by the undoer callback,
\* whose own undo succeeded and published a nested historyChanged.
C13_Witness ==
    /\ lastOp.name = "undo"
    /\ \E i \in ReenteringCalls : events[i].data.callback = "undoer"
    /\ Cardinality({i \in Deliveries : events[i].name = "historyChanged"}) >= 2
    /\ \A i \in Deliveries : DeliveredToRegistered(i)

----------------------------------------------------------------------------
(* Subscribing and unsubscribing (SpecEmitter, SpecSubscriptions) *)

\* The callbacks that subscribe or unsubscribe a callback when they are called.
Resubscribing == DOMAIN Unsubscribes \cup {"adder", "swapper"}

\* The notifications of the last call whose list held, when they started, a
\* callback that subscribes or unsubscribes.
ResubscribedDeliveries ==
    {i \in Deliveries :
        \E k \in DOMAIN events[i].data.callbacks :
            events[i].data.callbacks[k] \in Resubscribing}

\* The notification whose list is recorded at position i called the callbacks
\* of that list, each once for each of its registrations, and no other callback.
DeliveredToSnapshot(i) ==
    \A callback \in Callbacks :
        Invocations(events[i].data.notification, callback)
            = Occurrences(events[i].data.callbacks, callback)

\* C14 as stated: a notification during which a callback subscribes or
\* unsubscribes still calls every callback registered when it started exactly
\* once, and does not call a callback added while it was running.
C14_SnapshotDelivery ==
    \A i \in ResubscribedDeliveries : DeliveredToSnapshot(i)

\* The throws of callbacks during the last call, each caught by notifyObservers.
Thrown == {i \in DOMAIN events : events[i].kind = "error"}

\* The notifications of the last call during which a callback threw and in
\* which nothing but a throw could keep a callback of the list from being
\* called: those of the compiled class, which iterates a copy of the list, and
\* those of the TypeScript class whose list held no unsubscribing callback.
ThrowingDeliveries ==
    {i \in Deliveries :
        /\ \E e \in Thrown : events[e].data.notification = events[i].data.notification
        /\ \/ emitter = "dist"
           \/ \A k \in DOMAIN events[i].data.callbacks :
                  events[i].data.callbacks[k] \notin DOMAIN Unsubscribes}

\* The last call did all of its work and returned its result.
Completed ==
    CASE lastOp.name = "setState" ->
           /\ result = [value |-> TRUE]
           /\ Stringify(state) = Stringify(Spread(pre.state, lastOp.arg))
           /\ currentPosition = pre.currentPosition + 1
           /\ Len(history) = currentPosition + 1
           /\ history[currentPosition + 1]
                  = [previousState |-> pre.state, nextState |-> state]
      [] lastOp.name = "hover" ->
           /\ result = [prevented |-> FALSE, handled |-> TRUE]
           /\ state = [pre.state EXCEPT !.isHovered = lastOp.arg]
           /\ currentPosition = pre.currentPosition + 1
           /\ Len(history) = currentPosition + 1
           /\ history[currentPosition + 1]
                  = [previousState |-> pre.state, nextState |-> state]
      [] lastOp.name = "undo" ->
           /\ result = [value |-> TRUE]
           /\ history = pre.history
           /\ currentPosition = pre.currentPosition - 1
           /\ state = history[pre.currentPosition + 1].previousState
      [] lastOp.name = "redo" ->
           /\ result = [value |-> TRUE]
           /\ history = pre.history
           /\ currentPosition = pre.currentPosition + 1
           /\ state = history[currentPosition + 1].nextState
      [] OTHER -> FALSE

\* C15: a callback that throws during a notification does not keep the other
\* callbacks of the list from being called for that notification, and the
\* setState, undo, redo or hover that caused the notification completes: the
\* command is appended or the cursor moved, the data state is the new one and
\* the call returns its result.
C15_ThrowIsolated ==
    /\ \A i \in ThrowingDeliveries : DeliveredToSnapshot(i)
    /\ Thrown # {} => Completed

\* An undo whose stateChanged notification called a thrower, which threw, and
\* then the callback subscribed after it.
C15_Witness ==
    /\ lastOp.name = "undo"
    /\ \E i \in ThrowingDeliveries, e \in Thrown, j \in DOMAIN events :
           /\ events[i].data.callbacks = <<"thrower", "log">>
           /\ events[e].data.notification = events[i].data.notification
           /\ j > e
           /\ events[j].kind = "callback"
           /\ events[j].data.callback = "log"
           /\ events[j].data.notification = events[i].data.notification
    /\ Completed

\* C16 as stated: a call of an unsubscribe function that the client has called
\* before leaves every list of callbacks as it was, also when the same callback
\* is subscribed to the event more than once.
C16_UnsubscribeIdempotent ==
    (lastOp.name = "unsubscribe" /\ subscriptions[lastOp.arg].calls >= 2)
        => observers = pre.observers

----------------------------------------------------------------------------
(* undo and redo at the ends of the history, and what they publish (Spec) *)

\* The last call was undo() with the cursor below the first command, or redo()
\* with the cursor on the last command.
AtEndOfHistory ==
    \/ lastOp.name = "undo" /\ pre.currentPosition < 0
    \/ lastOp.name = "redo" /\ pre.currentPosition = Len(pre.history) - 1

\* C17: undo() with the cursor below 0 and redo() with the cursor on the last
\* command return false, leave the data state, the visual node, the history and
\* the cursor as they were, and publish nothing.
C17_NothingToUndoOrRedo ==
    AtEndOfHistory
        => /\ result = [value |-> FALSE]
           /\ Fields(Self) = pre
           /\ events = <<>>

\* A redo refused with commands in the history, the cursor on the last of them.
C17_Witness ==
    /\ lastOp.name = "redo"
    /\ pre.history # <<>>
    /\ pre.currentPosition = Len(pre.history) - 1
    /\ result = [value |-> FALSE]

\* The historyChanged notifications of the last call.
HistoryChanges ==
    {i \in DOMAIN events :
        events[i].kind = "notify" /\ events[i].name = "historyChanged"}

\* C18: undo() and redo() publish historyChanged when they return true, once,
\* with the tuple getHistory() returns after the cursor has moved, and do not
\* publish it when they return false.
C18_HistoryChangedOnSuccess ==
    lastOp.name \in {"undo", "redo"}
        => IF result.value
           THEN /\ Cardinality(HistoryChanges) = 1
                /\ \A i \in HistoryChanges : events[i].data = GetHistory(Self)
                /\ currentPosition # pre.currentPosition
           ELSE HistoryChanges = {}

\* An undo that succeeded in the middle of the history: the tuple it published
\* says that both undo and redo are possible.
C18_Witness ==
    /\ lastOp.name = "undo"
    /\ result.value
    /\ \E i \in HistoryChanges : events[i].data.canUndo /\ events[i].data.canRedo

----------------------------------------------------------------------------
(* Interaction types without a strategy (SpecDispatch) *)

\* C19: handleInteraction with a type for which the widget has no strategy
\* returns {prevented: false, handled: false, reason: 'No strategy'}, leaves the
\* data state, the visual node, the history and the cursor as they were, and
\* publishes nothing.
C19_NoStrategy ==
    (/\ lastOp.name = "handleInteraction"
     /\ lastOp.arg.type \notin DOMAIN InteractionStrategies(widget))
        => /\ result = [prevented |-> FALSE, handled |-> FALSE,
                        reason |-> "No strategy"]
           /\ Fields(Self) = pre
           /\ events = <<>>

\* 'hover' passed to an input, which registers no hover strategy, after the
\* input has recorded a command.
C19_Witness ==
    /\ lastOp.name = "handleInteraction"
    /\ lastOp.arg.type = "hover"
    /\ widget = "input"
    /\ history # <<>>
    /\ result.reason = "No strategy"

----------------------------------------------------------------------------
(* Names without a node in the registry (SpecRegistry) *)

\* The hook calls and the stateTransition and cssStateChanged notifications of
\* the last call.
TransitionRecords ==
    {i \in DOMAIN events :
        \/ events[i].kind \in {"enter", "exit"}
        \/ /\ events[i].kind = "notify"
           /\ events[i].name \in {"stateTransition", "cssStateChanged"}}

\* The last call was a setState, undo or redo that changed the data state to
\* one whose node is not in the registry.
DerivedUnregistered ==
    /\ lastOp.name \in {"setState", "undo", "redo"}
    /\ result.value
    /\ ButtonUpdateCurrentState(state) \notin states

\* C20: transitionToState with a name that has no node in the registry leaves
\* the current node as it was, calls no exit() or enter() and publishes neither
\* stateTransition nor cssStateChanged; called by the client it changes
\* nothing at all, and called for the data state that a setState, undo or redo
\* has just stored it lets that call complete: the data state is stored and
\* stateChanged published, the command appended or the cursor moved, and the
\* result returned.
C20_UnregisteredNode ==
    /\ (lastOp.name = "transitionToState" /\ lastOp.arg \notin states)
           => Fields(Self) = pre /\ events = <<>>
    /\ DerivedUnregistered
           => /\ currentState = pre.currentState
              /\ TransitionRecords = {}
              /\ Completed
              /\ \E i \in DOMAIN events :
                     /\ events[i].kind = "notify"
                     /\ events[i].name = "stateChanged"
                     /\ events[i].data = state

\* A setState that stored isHovered in a button that has no hovered node: the
\* button stays in the node it was in.
C20_Witness ==
    /\ DerivedUnregistered
    /\ lastOp.name = "setState"
    /\ ButtonUpdateCurrentState(state) = "hovered"
    /\ currentState \notin {NoState, "hovered"}

\* The client's transitionToState('frozen') on a button in a node.
C20_WitnessCall ==
    /\ lastOp.name = "transitionToState"
    /\ lastOp.arg = "frozen"
    /\ currentState # NoState
    /\ history # <<>>

----------------------------------------------------------------------------
(* C21 *)

\* C21: right after the constructor and after every call, the instance has a
\* current node (currentState is not null) and that node is one of the nodes
\* of its registry.
C21_OneCurrentNode ==
    /\ currentState # NoState
    /\ currentState \in states

\* The instance as its constructor leaves it: in the node of its initial data.
C21_Witness ==
    /\ lastOp.name = "new"
    /\ history = <<>>
    /\ currentState = "idle"

\* A later call has moved the instance from one node of the registry to another.
C21_WitnessMoved ==
    /\ lastOp.name # "new"
    /\ pre.currentState \in states
    /\ currentState \in states \ {pre.currentState}

----------------------------------------------------------------------------
(* C23 *)

\* The last call was hover(isHovered) on a widget that was disabled.
HoveredWhileDisabled == lastOp.name = "hover" /\ pre.state.isDisabled

\* C23: hover(isHovered) on a disabled widget stores the flag and leaves the
\* other fields alone; when the flag changed the call appended one command
\* for it and put the cursor on it, and when it did not the history is as it
\* was; the call never publishes hoverChanged, and the node stays 'disabled'.
C23_HoverWhileDisabled ==
    HoveredWhileDisabled
        => /\ state = [pre.state EXCEPT !.isHovered = lastOp.arg.isHovered]
           /\ IF pre.state.isHovered # lastOp.arg.isHovered
              THEN /\ currentPosition = pre.currentPosition + 1
                   /\ history = Append(SubSeq(pre.history, 1, pre.currentPosition + 1),
                                       [previousState |-> pre.state,
                                        nextState |-> state])
              ELSE /\ history = pre.history
                   /\ currentPosition = pre.currentPosition
           /\ \A i \in DOMAIN events : ~IsNotification(events[i], "hoverChanged")
           /\ pre.currentState = "disabled"
           /\ currentState = "disabled"

\* A disabled widget was hovered and the flag went from false to true.
C23_Witness ==
    /\ HoveredWhileDisabled
    /\ ~pre.state.isHovered
    /\ state.isHovered
    /\ history # pre.history

----------------------------------------------------------------------------
(* C24 *)

\* The snapshot s with the fields setError(error) stores.
WithError(s, error) ==
    IF "isValid" \in DOMAIN s
    THEN [s EXCEPT !.error = error, !.isValid = ~Truthy(error)]
    ELSE [s EXCEPT !.error = error]

\* The node of a widget whose error is set.
NodeOfError(s) ==
    IF s.isDisabled THEN "disabled"
    ELSE IF Flag(s, "isLoading") THEN "loading"
    ELSE "error"

\* C24: setError(error) stores the error through a command of its own, which
\* it appends with the snapshots before and after when the error differs from
\* the stored one, and leaves state and history alone when it does not; an
\* undo that succeeds puts back the error (with the rest of the snapshot) the
\* undone command had found and a redo the error it had stored; and in every
\* state whose error is set (truthy) the node is 'error', whatever isPressed,
\* isFocused and isHovered are, unless the widget is disabled, or loading if it
\* has the flag, and then the node is 'disabled', or 'loading'.
C24_ErrorIsData ==
    /\ lastOp.name = "setError"
           => /\ state = WithError(pre.state, lastOp.arg.error)
              /\ IF pre.state.error # lastOp.arg.error
                 THEN /\ currentPosition = pre.currentPosition + 1
                      /\ history
                            = Append(SubSeq(pre.history, 1, pre.currentPosition + 1),
                                     [previousState |-> pre.state, nextState |-> state])
                 ELSE /\ history = pre.history
                      /\ currentPosition = pre.currentPosition
    /\ (lastOp.name = "undo" /\ result.value)
           => /\ state.error = pre.history[pre.currentPosition + 1].previousState.error
              /\ state = pre.history[pre.currentPosition + 1].previousState
    /\ (lastOp.name = "redo" /\ result.value)
           => /\ state.error = pre.history[pre.currentPosition + 2].nextState.error
              /\ state = pre.history[pre.currentPosition + 2].nextState
    /\ Truthy(state.error) => currentState = NodeOfError(state)

\* setError on a pressed widget that is neither disabled nor loading: the
\* command is appended and the node is 'error'.
C24_Witness ==
    /\ lastOp.name = "setError"
    /\ pre.state.error = Null
    /\ state.error = "E"
    /\ Flag(state, "isPressed")
    /\ Len(history) = Len(pre.history) + 1
    /\ currentState = "error"

\* An undo took the error away and the node with it.
C24_WitnessUndone ==
    /\ lastOp.name = "undo"
    /\ result.value
    /\ pre.state.error = "E"
    /\ state.error = Null
    /\ pre.currentState = "error"
    /\ currentState # "error"

\* A redo stored the error again while the widget was loading: the node is
\* 'loading'.
C24_WitnessRedone ==
    /\ lastOp.name = "redo"
    /\ result.value
    /\ pre.state.error = Null
    /\ state.error = "E"
    /\ currentState = "loading"

----------------------------------------------------------------------------
(* C27 *)

\* C27: with no subscriber calling back into the instance, the data state is
\* the next snapshot of the command at the cursor, or the initial state of the
\* widget when the cursor is -1, and each command of the history but the first
\* has for previous snapshot the next snapshot of the command before it.
C27_StateAtCursor ==
    /\ state = IF currentPosition = -1 THEN DefineInitialState(widget)
               ELSE history[currentPosition + 1].nextState
    /\ \A i \in 2..Len(history) :
           history[i].previousState = history[i - 1].nextState

\* An undo left the cursor on the first of two commands: the state is that
\* command's next snapshot, which the second command has as its previous one.
C27_Witness ==
    /\ lastOp.name = "undo"
    /\ result.value
    /\ Len(history) = 2
    /\ currentPosition = 0
    /\ state = history[1].nextState
    /\ state # history[2].nextState

\* Everything undone: the cursor is -1 and the state is the initial one again.
C27_WitnessInitial ==
    /\ lastOp.name = "undo"
    /\ result.value
    /\ currentPosition = -1
    /\ Len(history) = 2
    /\ state = DefineInitialState(widget)

----------------------------------------------------------------------------
(* C29 *)

\* getCSSState() as it was when the last call started.
CssStateBefore ==
    GetCSSState([Self EXCEPT !.state = pre.state, !.currentState = pre.currentState])

\* The cssStateChanged notifications of the last call.
CssStateChanges == {i \in DOMAIN events : IsNotification(events[i], "cssStateChanged")}

\* C29: a call that changed the data state (by committing, undoing or redoing
\* a command) so that getCSSState() returns another value than before it,
\* other classes or other data attributes, has published cssStateChanged with
\* the value getCSSState() returns now.
C29_CssStateChangedPublished ==
    (lastOp.name # "new" /\ state # pre.state /\ GetCSSState(Self) # CssStateBefore)
        => \E i \in CssStateChanges : events[i].data = GetCSSState(Self)

\* What the code does: the calls that moved the instance to another node have
\* published cssStateChanged with the projection of that moment.
C29_PublishedOnTransition ==
    (lastOp.name # "new" /\ currentState # pre.currentState)
        => \E i \in CssStateChanges : events[i].data.classes = GetCSSState(Self).classes

\* toggle() on a toggle changed data-checked and published no cssStateChanged.
C29_Unpublished ==
    /\ widget = "toggle"
    /\ lastOp.name = "toggle"
    /\ state.isChecked # pre.state.isChecked
    /\ GetCSSState(Self).dataAttributes["data-checked"]
           # CssStateBefore.dataAttributes["data-checked"]
    /\ CssStateChanges = {}

----------------------------------------------------------------------------
(* C28 *)

\* The stateChanged deliveries of the last call in which the subscriber called
\* setState({ isHovered: true }) on the instance.
SetterCalls ==
    {i \in DOMAIN events :
        /\ events[i].kind = "callback"
        /\ events[i].name = "stateChanged"
        /\ events[i].data.callback = "setter"
        /\ ~events[i].data.data.isHovered}

\* The command the setState of delivery i committed: from the snapshot the
\* delivery carried to that snapshot with isHovered set.
CommittedInside(i) ==
    [previousState |-> events[i].data.data,
     nextState |-> [events[i].data.data EXCEPT !.isHovered = TRUE]]

\* The command a re-entrant setState committed is the last of the history, the
\* cursor is on it, and the data state is its next snapshot.
AtTail(i) ==
    /\ history # <<>>
    /\ history[Len(history)] = CommittedInside(i)
    /\ currentPosition = Len(history) - 1
    /\ ~CanRedo(Self)
    /\ state = CommittedInside(i).nextState

\* C28: when a subscriber has called setState on the instance from inside the
\* stateChanged delivery of an undo() or of a redo(), then after that undo or
\* redo has returned the command the subscriber committed is at the tail of
\* the history with the cursor on it (canRedo is false) and the data state is
\* that command's next snapshot.
C28_ReentrantCommitAtTail ==
    (lastOp.name \in {"undo", "redo"} /\ result.value)
        => \A i \in SetterCalls : AtTail(i)

\* What holds: the statement for redo(), which steps the cursor before it runs
\* the command.
C28_RedoCommitAtTail ==
    (lastOp.name = "redo" /\ result.value) => \A i \in SetterCalls : AtTail(i)

\* After an undo() with the subscriber's setState inside: the committed command
\* is the last of the history, the cursor is one below it on the undone
\* command (canRedo is true), and the data state is not that command's next
\* snapshot.
C28_UndoLeavesCursorBelow ==
    /\ lastOp.name = "undo"
    /\ result.value
    /\ \E i \in SetterCalls :
           /\ history[Len(history)] = CommittedInside(i)
           /\ state = CommittedInside(i).nextState
    /\ currentPosition = Len(history) - 2
    /\ CanRedo(Self)
    /\ history[currentPosition + 1] = pre.history[pre.currentPosition + 1]
    /\ state # history[currentPosition + 1].nextState

\* A redo() with the subscriber's setState inside.
C28_RedoReentered ==
    /\ lastOp.name = "redo"
    /\ result.value
    /\ SetterCalls # {}

----------------------------------------------------------------------------
(* C30 *)

\* C30: after every call on the component of a mounted hook, the history
\* tuple the hook holds is the one getHistory() returns.
C30_HookHistoryInSync == hook.history = GetHistory(Self)

\* What holds: the tuple is the current one after every undo() and redo() that
\* returned true,
\* and the snapshot and the projection the hook holds after a call that moved
\* the instance to another node are the current ones.
C30_HookInSyncAfterUndoRedo ==
    /\ (lastOp.name \in {"undo", "redo"} /\ result.value)
           => hook.history = GetHistory(Self)
    /\ hook.componentState = GetState(Self)
    /\ currentState # pre.currentState => hook.cssState = GetCSSState(Self)

\* A setter committed a command and the hook still holds the tuple of the
\* empty history.
C30_StaleAfterCommit ==
    /\ lastOp.name = "setDisabled"
    /\ Len(history) = 1
    /\ currentPosition = 0
    /\ hook.history = [length |-> 0, currentPosition |-> -1,
                       canUndo |-> FALSE, canRedo |-> FALSE]

----------------------------------------------------------------------------
(* C25 *)

\* toggle(); setState({ isDisabled: true }); toggle(); undo(); undo()
Scenario ==
    <<[name |-> "toggle"], [name |-> "setState", arg |-> [isDisabled |-> TRUE]],
      [name |-> "toggle"], [name |-> "undo"], [name |-> "undo"]>>

\* The calls made since construction are the first n of the scenario.
Played(n) ==
    /\ Len(calls) = n
    /\ \A k \in 1..n :
           /\ calls[k].name = Scenario[k].name
           /\ calls[k].name = "setState" => calls[k].arg = Scenario[k].arg

\* C25: a new toggle is neither disabled nor checked.  The first toggle()
\* sets isChecked and publishes toggled with checked: true; after
\* setState({isDisabled: true}) the second toggle() returns prevented: true with
\* the reason 'disabled or loading' and leaves state and history as they were;
\* the two undo() calls that follow bring the state back to the initial one,
\* and getHistory() then reports length 2, currentPosition -1, canUndo false
\* and canRedo true.
C25_ToggleScenario ==
    /\ Played(0) => ~state.isDisabled /\ ~state.isChecked
    /\ Played(1)
           => /\ state.isChecked
              /\ \E i \in DOMAIN events :
                     /\ IsNotification(events[i], "toggled")
                     /\ events[i].data = [checked |-> TRUE]
    /\ Played(2) => state.isDisabled /\ state.isChecked
    /\ Played(3)
           => /\ result.prevented
              /\ result.reason = "disabled or loading"
              /\ state = pre.state
              /\ history = pre.history
              /\ currentPosition = pre.currentPosition
    /\ Played(5)
           => /\ ~state.isDisabled
              /\ ~state.isChecked
              /\ state = ToggleInitialState
              /\ GetHistory(Self) = [length |-> 2, currentPosition |-> -1,
                                     canUndo |-> FALSE, canRedo |-> TRUE]

\* The scenario played to its end.
C25_Witness ==
    /\ Played(5)
    /\ lastOp.name = "undo"
    /\ result.value
    /\ Len(history) = 2

\* The scenario after its third call, the toggle() of the disabled toggle.
C25_WitnessPrevented ==
    /\ Played(3)
    /\ lastOp.name = "toggle"
    /\ state.isDisabled
    /\ events = <<>>

----------------------------------------------------------------------------
(* C26 *)

----------------------------------------------------------------------------
(* C22 *)

\* The last step was a write of the client to an object of its own: the
\* object getState() returned, its openItems, or the array it had passed to
\* setOpenItems.
ClientWrote ==
    lastOp.name \in {"copy.isDisabled =", "copy.openItems.push", "items.push"}

\* C22: a write of the client to an object it got from getState() (or from a
\* stateChanged / stateTransition payload), to the openItems array of such an
\* object, or to an array it had passed to the instance, changes neither the
\* data state of the instance nor a snapshot of its history.
C22_DefensiveCopies ==
    ClientWrote => state = pre.state /\ history = pre.history

\* What holds: a write to a field of the object getState() returned changes
\* nothing of the instance.
C22_CopyIsNewObject ==
    lastOp.name = "copy.isDisabled =" => Fields(Self) = pre

\* The client pushed an item into the openItems of the object getState()
\* returned: the state of the instance has the item.
C22_StateWrittenThroughCopy ==
    /\ lastOp.name = "copy.openItems.push"
    /\ state.openItems # pre.state.openItems
    /\ history = pre.history

\* The client pushed an item into the array it had passed to setOpenItems
\* before: the state and the next snapshot of the command have the item.
C22_HistoryWrittenThroughPassed ==
    /\ lastOp.name = "items.push"
    /\ state.openItems # pre.state.openItems
    /\ history # pre.history
    /\ history[currentPosition + 1].nextState = state

----------------------------------------------------------------------------
(* C31 *)

\* The focusChanged notifications of the last call.
FocusChanges == {i \in DOMAIN events : IsNotification(events[i], "focusChanged")}

\* C31: focus(true) on a disabled widget returns prevented: true with the
\* reason 'disabled' and changes nothing, isFocused and the history included;
\* every other focus(isFocused), focus(false) on a disabled widget among them,
\* is not prevented and stores the flag, so that a disabled widget that was
\* focused is no longer; and focusChanged is published, once and with the new
\* flag, exactly by the calls that changed isFocused, which are also the ones
\* that append a command.
C31_FocusStrategy ==
    lastOp.name = "focus"
        => IF pre.state.isDisabled /\ lastOp.arg.isFocused
           THEN /\ result.prevented
                /\ result.reason = "disabled"
                /\ Fields(Self) = pre
                /\ events = <<>>
           ELSE /\ ~result.prevented
                /\ result.handled
                /\ state = [pre.state EXCEPT !.isFocused = lastOp.arg.isFocused]
                /\ IF pre.state.isFocused # lastOp.arg.isFocused
                   THEN /\ Cardinality(FocusChanges) = 1
                        /\ \A i \in FocusChanges :
                               events[i].data = [isFocused |-> lastOp.arg.isFocused]
                        /\ Len(history) = pre.currentPosition + 2
                        /\ currentPosition = pre.currentPosition + 1
                   ELSE /\ FocusChanges = {}
                        /\ history = pre.history
                        /\ currentPosition = pre.currentPosition

\* focus(true) on a disabled widget with commands in its history.
C31_Witness ==
    /\ lastOp.name = "focus"
    /\ lastOp.arg.isFocused
    /\ pre.state.isDisabled
    /\ ~state.isFocused
    /\ history # <<>>
    /\ result.prevented

\* focus(false) on a disabled widget that was focused.
C31_WitnessBlurred ==
    /\ lastOp.name = "focus"
    /\ ~lastOp.arg.isFocused
    /\ pre.state.isDisabled
    /\ pre.state.isFocused
    /\ ~state.isFocused
    /\ FocusChanges # {}

\* focus(true) on an enabled widget that was focused already.
C31_WitnessUnchanged ==
    /\ lastOp.name = "focus"
    /\ lastOp.arg.isFocused
    /\ ~pre.state.isDisabled
    /\ pre.state.isFocused
    /\ FocusChanges = {}

----------------------------------------------------------------------------
(* C32 *)

\* C32: in every state that an accordion reaches by toggleItem, setType,
\* setCollapsible, undo and redo, a 'single' accordion has at most one open
\* item, and so has every snapshot that undo or redo can restore.
C32_SingleHasOneOpen ==
    /\ state.type = "single" => Len(state.openItems) <= 1
    /\ \A i \in DOMAIN history :
           /\ history[i].previousState.type = "single"
                  => Len(history[i].previousState.openItems) <= 1
           /\ history[i].nextState.type = "single"
                  => Len(history[i].nextState.openItems) <= 1

\* setType('single') on a 'multiple' accordion with two open items.
C32_Witness ==
    /\ lastOp.name = "setType"
    /\ pre.state.type = "multiple"
    /\ Len(pre.state.openItems) = 2
    /\ state.type = "single"
    /\ state.openItems = <<pre.state.openItems[1]>>

\* A redo that makes the accordion 'single' again, after an undo gave the two
\* open items back.
C32_WitnessRedone ==
    /\ lastOp.name = "redo"
    /\ pre.state.type = "multiple"
    /\ Len(pre.state.openItems) = 2
    /\ state.type = "single"

----------------------------------------------------------------------------
(* C33 *)

\* The last call toggled the open item of a 'single' accordion that is not
\* collapsible.
ToggledTheOpenItem ==
    /\ lastOp.name = "toggleItem"
    /\ pre.state.type = "single"
    /\ ~pre.state.collapsible
    /\ Includes(pre.state.openItems, lastOp.arg.itemId)

----------------------------------------------------------------------------
(* C34 *)

\* C34: in every state a slider reaches by setValue, keydown, setRange with
\* min < max and step > 0, undo and redo, value is a number between min and
\* max: min <= value <= max.
C34_ValueWithinRange ==
    widget = "slider"
        => /\ state.value # NaN
           /\ state.min <= state.value
           /\ state.value <= state.max

\* What the code keeps instead: value is NaN or lies between min and max, and
\* min < max and step > 0 always.
C34_WithinRangeOrNaN ==
    widget = "slider"
        => /\ state.min < state.max
           /\ state.step > 0
           /\ \/ state.value = NaN
              \/ state.min <= state.value /\ state.value <= state.max

\* setValue(NaN) stored NaN as the value.
C34_NaNStored ==
    /\ lastOp.name = "setValue"
    /\ widget = "slider"
    /\ lastOp.arg.value = NaN
    /\ pre.state.value # NaN
    /\ state.value = NaN

\* setRange moved a value that was outside the new range into it.
C34_RangeMovedValue ==
    /\ lastOp.name = "setRange"
    /\ pre.state.value > state.max
    /\ state.value = state.max

----------------------------------------------------------------------------
(* C35 *)

\* The last call was a setValue that the slider did not refuse.
ValueRequested ==
    /\ lastOp.name = "setValue"
    /\ widget = "slider"
    /\ ~result.prevented

\* C35: after setValue(v) on an enabled slider with integer min < max and
\* step > 0, for any requested v, the value is on the grid of the step that
\* starts at min: value - min is an integer multiple of step.
C35_ValueOnStepGrid ==
    ValueRequested
        => /\ state.value # NaN
           /\ (state.value - state.min) % state.step = 0

\* What the code keeps instead: the value is on the grid, or it is max (the
\* last clamp, when max is not on the grid), or it is NaN.
C35_OnGridOrMaxOrNaN ==
    ValueRequested
        => \/ state.value = NaN
           \/ state.value = state.max
           \/ (state.value - state.min) % state.step = 0

\* setValue committed a max that is not on the grid.
C35_MaxOffGrid ==
    /\ ValueRequested
    /\ state.value # pre.state.value
    /\ state.value = state.max
    /\ (state.value - state.min) % state.step # 0

\* setValue committed a value on the grid that is not the one requested.
C35_Rounded ==
    /\ ValueRequested
    /\ lastOp.arg.value # NaN
    /\ state.value # pre.state.value
    /\ state.value # lastOp.arg.value
    /\ state.value < state.max
    /\ (state.value - state.min) % state.step = 0

----------------------------------------------------------------------------
(* C36 *)

\* The values of the options of the list that are not disabled.
EnabledValues(options) ==
    {options[i].value : i \in {j \in DOMAIN options : ~Flag(options[j], "disabled")}}

\* The last call asked, by selectOption or setValue, for a value that no
\* enabled option of the list has.
AskedForNoEnabledOption ==
    /\ lastOp.name \in {"selectOption", "setValue"}
    /\ lastOp.arg.value # Null
    /\ lastOp.arg.value \notin EnabledValues(pre.state.options)

\* C36: on a radio group, selectOption(v) and setValue(v) with a v that is not
\* the value of an enabled option of the current list change nothing, and
\* selectOption returns prevented: true; so with the list of options set once,
\* after any selectOption and setValue calls the selected value is null or the
\* value of an enabled option. (setValue(null) clears the selection.)
C36_OnlyEnabledOptionsSelected ==
    /\ state.value = Null \/ state.value \in EnabledValues(state.options)
    /\ AskedForNoEnabledOption
           => /\ Fields(Self) = pre
              /\ events = <<>>
              /\ lastOp.name = "selectOption" => result.prevented
    /\ (lastOp.name = "setValue" /\ lastOp.arg.value = Null) => state.value = Null

\* setValue with the value of a disabled option, on an enabled group with
\* another option selected.
C36_Witness ==
    /\ AskedForNoEnabledOption
    /\ lastOp.name = "setValue"
    /\ lastOp.arg.value = "b"
    /\ ~state.isDisabled
    /\ state.value = "a"

\* selectOption with a value that is not in the list.
C36_WitnessUnknown ==
    /\ AskedForNoEnabledOption
    /\ lastOp.name = "selectOption"
    /\ lastOp.arg.value = "z"
    /\ ~state.isDisabled
    /\ state.value = "a"
    /\ result.prevented

\* setValue selected the value of an enabled option.
C36_WitnessSelected ==
    /\ lastOp.name = "setValue"
    /\ pre.state.value # lastOp.arg.value
    /\ state.value = "c"

----------------------------------------------------------------------------
(* C37 *)

\* The last call toggled, by toggle() or by Space or Enter, a checkbox that was
\* indeterminate.
ToggledIndeterminate ==
    /\ \/ lastOp.name = "toggle"
       \/ lastOp.name = "keydown" /\ lastOp.arg.key \in ActivationKeys
    /\ pre.state.isIndeterminate

\* C37: in every state a checkbox reaches by toggle, check, uncheck,
\* setIndeterminate, keydown of Space or Enter, undo and redo, isChecked and
\* isIndeterminate are not both true, in the state and in every snapshot undo
\* or redo can restore; and a toggle() or a Space or Enter on an indeterminate
\* checkbox leaves isChecked = true and isIndeterminate = false.
C37_CheckedXorIndeterminate ==
    /\ ~(state.isChecked /\ state.isIndeterminate)
    /\ \A i \in DOMAIN history :
           /\ ~(history[i].previousState.isChecked
                    /\ history[i].previousState.isIndeterminate)
           /\ ~(history[i].nextState.isChecked /\ history[i].nextState.isIndeterminate)
    /\ ToggledIndeterminate => state.isChecked /\ ~state.isIndeterminate

\* toggle() on a checkbox that setIndeterminate(true) made indeterminate after
\* it had been checked.
C37_Witness ==
    /\ ToggledIndeterminate
    /\ lastOp.name = "toggle"
    /\ Len(pre.history) >= 2
    /\ state.isChecked
    /\ ~state.isIndeterminate

\* Space or Enter on an indeterminate checkbox.
C37_WitnessKey ==
    /\ ToggledIndeterminate
    /\ lastOp.name = "keydown"
    /\ state.isChecked

\* setIndeterminate(true) on a checked checkbox clears isChecked.
C37_WitnessCleared ==
    /\ lastOp.name = "setIndeterminate"
    /\ pre.state.isChecked
    /\ state.isIndeterminate
    /\ ~state.isChecked

====
